---------------------------- MODULE Spec2Model ----------------------------
(***************************************************************************)
(* Model of the streaming core of llm-openai-format-fixer:                 *)
(*   - createAnthropicStreamFromOpenAI (the Anthropic stream projector),   *)
(*   - readSSEAndAssembleChatCompletion (the SSE assembler),               *)
(*   - openAIToAnthropicResponse (the non-streaming Anthropic builder).    *)
(*                                                                         *)
(* Text is a sequence of one-character strings, so that "" is <<>> and     *)
(* string concatenation is \o.  A JavaScript value that may be undefined,  *)
(* null or a string is a record [t, v].  The upstream byte stream is a     *)
(* sequence of symbols: the line feed, the "data:" prefix, and line bodies *)
(* (a JSON document, the [DONE] marker, text that is not JSON, text that   *)
(* does not start with "data:"); a chunk returned by reader.read() is any  *)
(* run of such symbols, so a line can be split over several chunks and a   *)
(* chunk can hold several lines.                                           *)
(***************************************************************************)
EXTENDS Integers, Sequences, FiniteSets, TLC

(* ------------------------------ bounds -------------------------------- *)

\* number of lines the upstream sends in one run
MaxLines == 3

\* largest upstream tool-call index
MaxToolIndex == 1

(* ------------------------- JavaScript values -------------------------- *)

Undefined == [t |-> "undefined", v |-> <<>>]

Null == [t |-> "null", v |-> <<>>]

Str(s) == [t |-> "string", v |-> s]

\* typeof x === "string"
IsString(x) == x.t = "string"

\* x ?? y
Coalesce(x, y) == IF x.t \in {"undefined", "null"} THEN y ELSE x

\* the truthiness test `if (x)` for a value that is undefined, null or a string
Truthy(x) == x.t = "string" /\ x.v # <<>>

\* x || "" for a value that is undefined, null or a string
OrEmpty(x) == IF Truthy(x) THEN x.v ELSE <<>>

\* tc.index when the field is absent
NoIndex == -1

(* --------------------------- upstream events -------------------------- *)

NoToolCalls == [isArray |-> FALSE, items |-> <<>>]

ToolCalls(items) == [isArray |-> TRUE, items |-> items]

\* one element of delta.tool_calls
TC(index, id, name, arguments) ==
    [index |-> index, id |-> id, name |-> name, arguments |-> arguments]

\* the object JSON.parse returns for one data: payload
EmptyObj ==
    [model |-> Undefined, hasDelta |-> FALSE, content |-> Undefined,
     reasoning_content |-> Undefined, text |-> Undefined,
     tool_calls |-> NoToolCalls, finish_reason |-> Undefined,
     message_content |-> Undefined, message_tool_calls |-> NoToolCalls,
     usage |-> 0]

Delta == [EmptyObj EXCEPT !.hasDelta = TRUE]

(* ------------------------- the byte stream ---------------------------- *)

NL == [sym |-> "NL", obj |-> EmptyObj]

PREFIX == [sym |-> "PREFIX", obj |-> EmptyObj]

DONE == [sym |-> "DONE", obj |-> EmptyObj]

BAD == [sym |-> "BAD", obj |-> EmptyObj]

COMMENT == [sym |-> "COMMENT", obj |-> EmptyObj]

Json(obj) == [sym |-> "JSON", obj |-> obj]

\* buffer.indexOf("\n"), 1-based; 0 when there is none
RECURSIVE IndexOfNL(_, _)
IndexOfNL(buf, i) ==
    IF i > Len(buf) THEN 0
    ELSE IF buf[i] = NL THEN i
    ELSE IndexOfNL(buf, i + 1)

\* buffer.slice(0, idx).trimEnd()
LineOf(buf) == SubSeq(buf, 1, IndexOfNL(buf, 1) - 1)

\* the buffer if the lines after the first one of a chunk were not kept
RestOf_Drop(buf) == <<>>

\* buffer.slice(idx + 1)
RestOf(buf) == SubSeq(buf, IndexOfNL(buf, 1) + 1, Len(buf))

\* line.startsWith("data:")
StartsWithData(line) == Len(line) > 0 /\ line[1] = PREFIX

\* line.slice(5).trim()
DataOf(line) == Tail(line)

\* JSON.parse(data) succeeds
ParsesAsJson(data) == Len(data) = 1 /\ data[1].sym = "JSON"

(* ------------------- events enqueued downstream ----------------------- *)

\* one Anthropic SSE event; every event has every field so that events compare
Event(type, index, block, id, name, text, stop_reason) ==
    [type |-> type, index |-> index, block |-> block, id |-> id,
     name |-> name, text |-> text, stop_reason |-> stop_reason]

\* message_start; the name field carries message.model
MessageStart(model) == Event("message_start", -1, "", <<>>, model, <<>>, "")

TextBlockStart == Event("content_block_start", 0, "text", <<>>, <<>>, <<>>, "")

TextDelta(text) == Event("content_block_delta", 0, "text_delta", <<>>, <<>>, text, "")

ToolBlockStart(index, id, name) ==
    Event("content_block_start", index, "tool_use", id, name, <<>>, "")

InputJsonDelta(index, partial_json) ==
    Event("content_block_delta", index, "input_json_delta", <<>>, <<>>, partial_json, "")

BlockStop(index) == Event("content_block_stop", index, "", <<>>, <<>>, <<>>, "")

MessageDelta(stop_reason) == Event("message_delta", -1, "", <<>>, <<>>, <<>>, stop_reason)

MessageStop == Event("message_stop", -1, "", <<>>, <<>>, <<>>, "")

(* ---------------- createAnthropicStreamFromOpenAI --------------------- *)

VARIABLES
    buffer,                 \* undecoded rest of the upstream text
    sentMessageStart,
    contentBlockStarted,
    contentBlockStopped,
    currentToolCallIndex,
    toolCallsInProgress,    \* Map in insertion order: sequence of entries
    closedToolCallIndices,
    out,                    \* events enqueued on the controller, in order
    closed,                 \* controller.close() was called
    seen,                   \* history: objects parsed and handled so far
    finishSeen,             \* history: finish_reason that closed the stream
    closeAt,                \* history: events enqueued before the closure began
    stream,                 \* body.stream === true on POST /v1/messages
    response,               \* the non-streaming AnthropicMessagesResponse
    upJson,                 \* history: the JSON body the upstream answered with
    asmBuffer,              \* readSSEAndAssembleChatCompletion: buffer
    assistantText,
    model,
    usage,
    toolCalls,              \* array that can have holes
    returned,               \* readSSEAndAssembleChatCompletion has returned
    result,                 \* the value it returned
    upEvents,               \* upstream: objects of the complete data lines sent
    upLines,                \* upstream: lines begun so far
    upPartial,              \* upstream: text sent since the last line feed
    upDone,                 \* upstream: reader.read() has reported done
    reply,                  \* the body a buffered endpoint answers with
    config,                 \* the configuration of the server (PROXY_KEY)
    request,                \* the HTTP request being served
    pc,                     \* where the handler of the request is
    chatReq,                \* the request sent upstream by fetch
    upResp,                 \* the answer of the upstream
    http,                   \* the HTTP answer given to the caller
    cancelled,              \* the consumer has cancelled the returned stream
    upstreamReader          \* the reader of upstreamResp.body: locked or cancelled

\* the model argument of createAnthropicStreamFromOpenAI
RequestedModel == <<"m">>

\* controller.enqueue(event)
Enqueue(s, e) == [s EXCEPT !.out = Append(@, e)]

\* toolCallsInProgress.has(tcIndex)
HasToolCall(s, tcIndex) ==
    \E k \in 1..Len(s.toolCallsInProgress) : s.toolCallsInProgress[k].index = tcIndex

\* position of tcIndex in the Map
PosOf(s, tcIndex) ==
    CHOOSE k \in 1..Len(s.toolCallsInProgress) : s.toolCallsInProgress[k].index = tcIndex

\* the text handling of one delta
HandleText(s, obj) ==
    LET textContent == Coalesce(obj.content, obj.reasoning_content)
        s1 == IF ~s.contentBlockStarted
              THEN [Enqueue(s, TextBlockStart) EXCEPT !.contentBlockStarted = TRUE]
              ELSE s
        s2 == IF textContent.v # <<>>
              THEN Enqueue(s1, TextDelta(textContent.v))
              ELSE s1
    IN  IF IsString(textContent) THEN s2 ELSE s

\* HandleToolCall with the fragment attributed to the block opened last
HandleToolCall_Current(s, tc) ==
    LET tcIndex == IF tc.index = NoIndex THEN 0 ELSE tc.index
        s1 == IF s.contentBlockStarted /\ ~s.contentBlockStopped
                 /\ s.currentToolCallIndex = -1
              THEN [Enqueue(s, BlockStop(0)) EXCEPT !.contentBlockStopped = TRUE]
              ELSE s
        s2 == [s1 EXCEPT !.currentToolCallIndex = tcIndex,
                         !.toolCallsInProgress =
                             Append(@, [index |-> tcIndex, id |-> OrEmpty(tc.id),
                                        name |-> OrEmpty(tc.name), arguments |-> <<>>])]
        s3 == Enqueue(s2, ToolBlockStart(tcIndex + 1, OrEmpty(tc.id), OrEmpty(tc.name)))
        s4 == IF HasToolCall(s, tcIndex) THEN s ELSE s3
        s5 == [s4 EXCEPT !.toolCallsInProgress[PosOf(s4, tcIndex)].arguments =
                             @ \o tc.arguments.v]
        s6 == Enqueue(s5, InputJsonDelta(s4.currentToolCallIndex + 1, tc.arguments.v))
    IN  IF Truthy(tc.arguments) THEN s6 ELSE s4

\* the body of `for (const tc of delta.tool_calls)` for one tc
HandleToolCall(s, tc) ==
    LET tcIndex == IF tc.index = NoIndex THEN 0 ELSE tc.index
        s1 == IF s.contentBlockStarted /\ ~s.contentBlockStopped
                 /\ s.currentToolCallIndex = -1
              THEN [Enqueue(s, BlockStop(0)) EXCEPT !.contentBlockStopped = TRUE]
              ELSE s
        s2 == [s1 EXCEPT !.currentToolCallIndex = tcIndex,
                         !.toolCallsInProgress =
                             Append(@, [index |-> tcIndex, id |-> OrEmpty(tc.id),
                                        name |-> OrEmpty(tc.name), arguments |-> <<>>])]
        s3 == Enqueue(s2, ToolBlockStart(tcIndex + 1, OrEmpty(tc.id), OrEmpty(tc.name)))
        s4 == IF HasToolCall(s, tcIndex) THEN s ELSE s3
        s5 == [s4 EXCEPT !.toolCallsInProgress[PosOf(s4, tcIndex)].arguments =
                             @ \o tc.arguments.v]
        s6 == Enqueue(s5, InputJsonDelta(tcIndex + 1, tc.arguments.v))
    IN  IF Truthy(tc.arguments) THEN s6 ELSE s4

\* for (const tc of delta.tool_calls)
RECURSIVE HandleToolCalls(_, _)
HandleToolCalls(s, items) ==
    IF items = <<>> THEN s
    ELSE HandleToolCalls(HandleToolCall(s, Head(items)), Tail(items))

\* the stop_reason of message_delta without the mapping of length
StreamStopReason_NoLength(finishReason) ==
    IF finishReason = <<"tool_calls">> THEN "tool_use" ELSE "end_turn"

\* the stop_reason of message_delta
StreamStopReason(finishReason) ==
    IF finishReason = <<"length">> THEN "max_tokens"
    ELSE IF finishReason = <<"tool_calls">> THEN "tool_use"
    ELSE "end_turn"

\* closing the text block in the finish branch
CloseTextAtFinish(s) ==
    IF s.contentBlockStarted /\ ~s.contentBlockStopped
    THEN [Enqueue(s, BlockStop(0)) EXCEPT !.contentBlockStopped = TRUE]
    ELSE s

\* the finish branch without the closing of the tool blocks
CloseToolCallsAtFinish_Skip(s, k) == s

\* for (const [tcIdx] of toolCallsInProgress) in the finish branch, from entry k
RECURSIVE CloseToolCallsAtFinish(_, _)
CloseToolCallsAtFinish(s, k) ==
    IF k > Len(s.toolCallsInProgress) THEN s
    ELSE LET tcIdx == s.toolCallsInProgress[k].index
         IN  IF tcIdx \notin s.closedToolCallIndices
             THEN CloseToolCallsAtFinish(
                      [Enqueue(s, BlockStop(tcIdx + 1))
                          EXCEPT !.closedToolCallIndices = @ \cup {tcIdx}], k + 1)
             ELSE CloseToolCallsAtFinish(s, k + 1)

\* if (finishReason) { ... controller.close(); return; }
FinishBranch(s, finishReason) ==
    LET s0 == [s EXCEPT !.closeAt = Len(s.out)]
        s1 == CloseToolCallsAtFinish(CloseTextAtFinish(s0), 1)
        s2 == Enqueue(s1, MessageDelta(StreamStopReason(finishReason.v)))
        s3 == Enqueue(s2, MessageStop)
    IN  [s3 EXCEPT !.closed = TRUE, !.finishSeen = finishReason]

\* the EOF branch without the closing of the text block
CloseTextAtEof_Never(s) == s

\* closing the text block in the EOF branch
CloseTextAtEof(s) ==
    IF s.contentBlockStarted /\ ~s.contentBlockStopped
    THEN [Enqueue(s, BlockStop(0)) EXCEPT !.contentBlockStopped = TRUE]
    ELSE s

\* for (const [tcIdx] of toolCallsInProgress) in the EOF branch, from entry k
RECURSIVE CloseToolCallsAtEof(_, _)
CloseToolCallsAtEof(s, k) ==
    IF k > Len(s.toolCallsInProgress) THEN s
    ELSE LET tcIdx == s.toolCallsInProgress[k].index
         IN  IF tcIdx \notin s.closedToolCallIndices
             THEN CloseToolCallsAtEof(
                      [Enqueue(s, BlockStop(tcIdx + 1))
                          EXCEPT !.closedToolCallIndices = @ \cup {tcIdx}], k + 1)
             ELSE CloseToolCallsAtEof(s, k + 1)

\* if (done) { ... controller.close(); return; }
EofBranch(s) ==
    LET s0 == [s EXCEPT !.closeAt = Len(s.out)]
        s1 == CloseToolCallsAtEof(CloseTextAtEof(s0), 1)
        s2 == Enqueue(s1, MessageDelta("end_turn"))
        s3 == Enqueue(s2, MessageStop)
    IN  [s3 EXCEPT !.closed = TRUE]

\* message_start on the first parsed object
SendMessageStart(s, obj) ==
    IF ~s.sentMessageStart
    THEN [Enqueue(s, MessageStart(IF Truthy(obj.model) THEN obj.model.v ELSE RequestedModel))
             EXCEPT !.sentMessageStart = TRUE]
    ELSE s

\* everything done for one parsed object, up to the finish test
HandleDelta(s, obj) ==
    LET s1 == [SendMessageStart(s, obj) EXCEPT !.seen = Append(@, obj)]
        s2 == HandleText(s1, obj)
        s3 == IF obj.tool_calls.isArray
              THEN HandleToolCalls(s2, obj.tool_calls.items)
              ELSE s2
    IN  IF obj.hasDelta THEN s3 ELSE s1

\* while ((idx = buffer.indexOf("\n")) !== -1) { ... }
RECURSIVE ProcessLines(_)
ProcessLines(s) ==
    IF IndexOfNL(s.buffer, 1) = 0 THEN s
    ELSE LET line == LineOf(s.buffer)
             s0 == [s EXCEPT !.buffer = RestOf(s.buffer)]
             data == DataOf(line)
         IN  IF ~StartsWithData(line) THEN ProcessLines(s0)
             ELSE IF data = <<>> \/ data = <<DONE>> THEN ProcessLines(s0)
             ELSE IF ~ParsesAsJson(data) THEN ProcessLines(s0)
             ELSE LET obj == data[1].obj
                      s1 == HandleDelta(s0, obj)
                  IN  IF Truthy(obj.finish_reason)
                      THEN FinishBranch(s1, obj.finish_reason)
                      ELSE ProcessLines(s1)

(* ------------------- JSON.parse and JSON.stringify -------------------- *)

\* the characters texts are made of here: a text is a sequence of them
QUOTE == "\""

\* a JSON value is a tree of nodes of one shape: `s` holds the digits of a
\* number or the characters of a string, `kids` the elements of an array
\* (k empty) or the members of an object (k the key)
JNone == [t |-> "none", s |-> <<>>, kids |-> <<>>]

JNum(s) == [t |-> "num", s |-> s, kids |-> <<>>]

JStr(s) == [t |-> "str", s |-> s, kids |-> <<>>]

JArr(kids) == [t |-> "arr", s |-> <<>>, kids |-> kids]

JObj(kids) == [t |-> "obj", s |-> <<>>, kids |-> kids]

Kid(k, val) == [k |-> k, val |-> val]

JNull == [t |-> "null", s |-> <<>>, kids |-> <<>>]

JTrue == [t |-> "bool", s |-> <<"true">>, kids |-> <<>>]

JFalse == [t |-> "bool", s |-> <<"false">>, kids |-> <<>>]

\* obj[key] (obj?.key): JNone stands for undefined
RECURSIVE Member(_, _)
Member(kids, key) ==
    IF kids = <<>> THEN JNone
    ELSE IF Head(kids).k = <<key>> THEN Head(kids).val ELSE Member(Tail(kids), key)

Get(obj, key) == IF obj.t = "obj" THEN Member(obj.kids, key) ELSE JNone

\* x == null
Nullish(x) == x.t \in {"none", "null"}

\* the truthiness test `if (x)`
JTruthy(x) ==
    /\ ~Nullish(x)
    /\ x # JFalse
    /\ x.t = "str" => x.s # <<>>

\* String(x)
RECURSIVE JsString(_)
RECURSIVE JsJoin(_)
JsString(x) ==
    IF x.t \in {"num", "str", "bool"} THEN x.s
    ELSE IF x.t = "null" THEN <<"n", "u", "l", "l">>
    ELSE IF x.t = "none" THEN <<"undefined">>
    ELSE IF x.t = "arr" THEN JsJoin(x.kids)
    ELSE <<"[object Object]">>

JsJoin(kids) ==
    IF kids = <<>> THEN <<>>
    ELSE (IF Nullish(Head(kids).val) THEN <<>> ELSE JsString(Head(kids).val))
            \o (IF Len(kids) > 1 THEN <<",">> ELSE <<>>)
            \o JsJoin(Tail(kids))

\* JSON.stringify(value): no white space, members in the order of the object
RECURSIVE Stringify(_)
RECURSIVE StringifyKids(_, _)
Stringify(value) ==
    IF value.t \in {"num", "bool"} THEN value.s
    ELSE IF value.t = "null" THEN <<"n", "u", "l", "l">>
    ELSE IF value.t = "str" THEN <<QUOTE>> \o value.s \o <<QUOTE>>
    ELSE IF value.t = "arr" THEN <<"[">> \o StringifyKids(value.kids, FALSE) \o <<"]">>
    ELSE <<"{">> \o StringifyKids(value.kids, TRUE) \o <<"}">>

StringifyKids(kids, keyed) ==
    IF kids = <<>> THEN <<>>
    ELSE (IF keyed THEN <<QUOTE>> \o Head(kids).k \o <<QUOTE, ":">> ELSE <<>>)
            \o Stringify(Head(kids).val)
            \o (IF Len(kids) > 1 THEN <<",">> ELSE <<>>)
            \o StringifyKids(Tail(kids), keyed)

\* first position from i on that holds no white space
RECURSIVE SkipWs(_, _)
SkipWs(text, i) ==
    IF i <= Len(text) /\ text[i] = " " THEN SkipWs(text, i + 1) ELSE i

\* first position from i on that holds no digit
RECURSIVE SkipDigits(_, _)
SkipDigits(text, i) ==
    IF i <= Len(text) /\ text[i] = "1" THEN SkipDigits(text, i + 1) ELSE i

\* position of the next quote from i on, 0 if there is none
RECURSIVE NextQuote(_, _)
NextQuote(text, i) ==
    IF i > Len(text) THEN 0
    ELSE IF text[i] = QUOTE THEN i ELSE NextQuote(text, i + 1)

ParseFail == [ok |-> FALSE, val |-> JNone, next |-> 0]

ParseOk(val, next) == [ok |-> TRUE, val |-> val, next |-> next]

\* obj[k] = val: a key set again keeps its place and takes the new value
RECURSIVE SetMember(_, _, _)
SetMember(kids, k, val) ==
    IF kids = <<>> THEN <<Kid(k, val)>>
    ELSE IF Head(kids).k = k THEN <<Kid(k, val)>> \o Tail(kids)
    ELSE <<Head(kids)>> \o SetMember(Tail(kids), k, val)

\* the value that starts at position i (white space already skipped)
RECURSIVE ParseValue(_, _)
RECURSIVE ParseElements(_, _, _)
RECURSIVE ParseMembers(_, _, _)
ParseValue(text, i) ==
    IF i > Len(text) THEN ParseFail
    ELSE IF text[i] = "1" THEN
        LET j == SkipDigits(text, i) IN ParseOk(JNum(SubSeq(text, i, j - 1)), j)
    ELSE IF text[i] = QUOTE THEN
        LET k == NextQuote(text, i + 1)
        IN  IF k = 0 THEN ParseFail ELSE ParseOk(JStr(SubSeq(text, i + 1, k - 1)), k + 1)
    ELSE IF text[i] = "[" THEN
        LET j == SkipWs(text, i + 1)
        IN  IF j <= Len(text) /\ text[j] = "]" THEN ParseOk(JArr(<<>>), j + 1)
            ELSE ParseElements(text, j, <<>>)
    ELSE IF text[i] = "{" THEN
        LET j == SkipWs(text, i + 1)
        IN  IF j <= Len(text) /\ text[j] = "}" THEN ParseOk(JObj(<<>>), j + 1)
            ELSE ParseMembers(text, j, <<>>)
    ELSE ParseFail

ParseElements(text, i, acc) ==
    LET r == ParseValue(text, i)
        j == SkipWs(text, r.next)
    IN  IF ~r.ok \/ j > Len(text) THEN ParseFail
        ELSE IF text[j] = "," THEN
            ParseElements(text, SkipWs(text, j + 1), acc \o <<Kid(<<>>, r.val)>>)
        ELSE IF text[j] = "]" THEN ParseOk(JArr(acc \o <<Kid(<<>>, r.val)>>), j + 1)
        ELSE ParseFail

ParseMembers(text, i, acc) ==
    IF i > Len(text) \/ text[i] # QUOTE THEN ParseFail
    ELSE LET k == NextQuote(text, i + 1)
             c == SkipWs(text, k + 1)
         IN  IF k = 0 \/ c > Len(text) \/ text[c] # ":" THEN ParseFail
             ELSE LET r == ParseValue(text, SkipWs(text, c + 1))
                      j == SkipWs(text, r.next)
                      kids == SetMember(acc, SubSeq(text, i + 1, k - 1), r.val)
                  IN  IF ~r.ok \/ j > Len(text) THEN ParseFail
                      ELSE IF text[j] = "," THEN
                          ParseMembers(text, SkipWs(text, j + 1), kids)
                      ELSE IF text[j] = "}" THEN ParseOk(JObj(kids), j + 1)
                      ELSE ParseFail

\* JSON.parse(text): ok is FALSE where it throws
JSONparse(text) ==
    LET r == ParseValue(text, SkipWs(text, 1))
    IN  IF r.ok /\ SkipWs(text, r.next) > Len(text) THEN r ELSE ParseFail

(* --------------------- openAIToAnthropicResponse ---------------------- *)

\* a tool call of a complete message
ToolCall(id, name, arguments) == TC(NoIndex, Str(id), Str(name), Str(arguments))

\* one block of the content of an Anthropic message
TextBlock(text) ==
    [type |-> "text", text |-> text, id |-> <<>>, name |-> <<>>, input |-> JNone]

\* input is the parsed arguments, or the raw string when they do not parse
ToolUseBlock(tc) ==
    [type |-> "tool_use", text |-> <<>>, id |-> tc.id.v, name |-> tc.name.v,
     input |-> IF JSONparse(tc.arguments.v).ok THEN JSONparse(tc.arguments.v).val
               ELSE JStr(tc.arguments.v)]

RECURSIVE ToolUseBlocks(_)
ToolUseBlocks(calls) ==
    IF calls = <<>> THEN <<>>
    ELSE <<ToolUseBlock(Head(calls))>> \o ToolUseBlocks(Tail(calls))

\* let stopReason = "end_turn"; if (finishReason === "length") ...
AnthropicStopReason(finishReason) ==
    IF finishReason = Str(<<"length">>) THEN "max_tokens"
    ELSE IF finishReason = Str(<<"stop">>) THEN "end_turn"
    ELSE IF finishReason = Str(<<"tool_calls">>) THEN "tool_use"
    ELSE "end_turn"

NoResponse ==
    [type |-> "none", content |-> <<>>, model |-> <<>>, stop_reason |-> "",
     input_tokens |-> 0, output_tokens |-> 0]

\* usage is a number n for {prompt_tokens: n, completion_tokens: n}, 0 when absent
openAIToAnthropicResponse(json, requestedModel) ==
    [type |-> "message",
     content |->
        (IF IsString(json.message_content) /\ json.message_content.v # <<>>
         THEN <<TextBlock(json.message_content.v)>> ELSE <<>>)
        \o (IF json.message_tool_calls.isArray
            THEN ToolUseBlocks(json.message_tool_calls.items) ELSE <<>>),
     model |-> IF Truthy(json.model) THEN json.model.v ELSE requestedModel,
     stop_reason |-> AnthropicStopReason(json.finish_reason),
     input_tokens |-> json.usage,
     output_tokens |-> json.usage]

(* ----------- readSSEAndAssembleChatCompletion (llmService.ts) --------- *)

\* an empty slot of the toolCalls array
Hole == [present |-> FALSE, id |-> <<>>, type |-> "", name |-> <<>>, arguments |-> <<>>]

\* the value of a slot
Slot(id, name, arguments) ==
    [present |-> TRUE, id |-> id, type |-> "function", name |-> name,
     arguments |-> arguments]

NoResult == [assistantText |-> <<>>, toolCalls |-> <<>>, model |-> <<>>, usage |-> 0]

\* typeof x === "string" ? x : ""
StringOrEmpty(x) == IF IsString(x) THEN x.v ELSE <<>>

\* !toolCalls[index]
NoSlot(arr, index) == index + 1 > Len(arr) \/ ~arr[index + 1].present

\* `count` empty slots
RECURSIVE Holes(_)
Holes(count) == IF count <= 0 THEN <<>> ELSE <<Hole>> \o Holes(count - 1)

\* toolCalls[index] = slot
SetSlot(arr, index, slot) ==
    IF index + 1 <= Len(arr) THEN [arr EXCEPT ![index + 1] = slot]
    ELSE arr \o Holes(index - Len(arr)) \o <<slot>>

IsPresent(slot) == slot.present

\* toolCalls.filter(Boolean)
FilterBoolean(arr) == SelectSeq(arr, IsPresent)

\* message.tool_calls as ToolCall[]
RECURSIVE AsToolCalls(_)
AsToolCalls(items) ==
    IF items = <<>> THEN <<>>
    ELSE <<Slot(Head(items).id.v, Head(items).name.v, Head(items).arguments.v)>>
            \o AsToolCalls(Tail(items))

\* return {assistantText, toolCalls, model, usage}
Return(s, calls) ==
    [s EXCEPT !.returned = TRUE,
              !.result = [assistantText |-> s.assistantText, toolCalls |-> calls,
                          model |-> s.model, usage |-> s.usage]]

\* the body of `for (const tc of deltaToolCalls)` for one tc
AssembleToolCall(s, tc) ==
    LET index == IF tc.index = NoIndex THEN 0 ELSE tc.index
        s1 == IF NoSlot(s.toolCalls, index)
              THEN [s EXCEPT !.toolCalls =
                        SetSlot(@, index, Slot(StringOrEmpty(tc.id),
                                               StringOrEmpty(tc.name), <<>>))]
              ELSE s
    IN  IF IsString(tc.arguments)
        THEN [s1 EXCEPT !.toolCalls[index + 1].arguments = @ \o tc.arguments.v]
        ELSE s1

\* for (const tc of deltaToolCalls)
RECURSIVE AssembleToolCalls(_, _)
AssembleToolCalls(s, items) ==
    IF items = <<>> THEN s
    ELSE AssembleToolCalls(AssembleToolCall(s, Head(items)), Tail(items))

\* the three appends to assistantText
AssembleText(s, obj) ==
    [s EXCEPT !.assistantText =
        @ \o StringOrEmpty(obj.content)
          \o StringOrEmpty(obj.reasoning_content)
          \o StringOrEmpty(obj.text)]

\* what is done with the delta of one parsed object
AssembleDelta(s, obj) ==
    LET s1 == AssembleText(s, obj)
    IN  IF obj.tool_calls.isArray
        THEN AssembleToolCalls(s1, obj.tool_calls.items)
        ELSE s1

\* if (obj?.model) model = obj.model; if (obj?.usage) usage = obj.usage
AssembleMeta(s, obj) ==
    [s EXCEPT !.model = IF Truthy(obj.model) THEN obj.model.v ELSE @,
              !.usage = IF obj.usage # 0 THEN obj.usage ELSE @]

\* the assembler if a payload that is not JSON ended the reading
RECURSIVE AssembleLines_Strict(_)
AssembleLines_Strict(s) ==
    IF IndexOfNL(s.buffer, 1) = 0 THEN s
    ELSE LET line == LineOf(s.buffer)
             s0 == [s EXCEPT !.buffer = RestOf(s.buffer)]
             data == DataOf(line)
         IN  IF ~StartsWithData(line) THEN AssembleLines_Strict(s0)
             ELSE IF data = <<>> THEN AssembleLines_Strict(s0)
             ELSE IF data = <<DONE>> THEN Return(s0, FilterBoolean(s0.toolCalls))
             ELSE IF ~ParsesAsJson(data) THEN Return(s0, FilterBoolean(s0.toolCalls))
             ELSE LET obj == data[1].obj
                      s1 == AssembleMeta(s0, obj)
                      s2 == [s1 EXCEPT !.assistantText = obj.message_content.v]
                  IN  IF IsString(obj.message_content)
                      THEN IF obj.message_tool_calls.isArray
                           THEN Return(s2, AsToolCalls(obj.message_tool_calls.items))
                           ELSE AssembleLines_Strict(s2)
                      ELSE AssembleLines_Strict(AssembleDelta(s1, obj))

\* while ((idx = buffer.indexOf("\n")) !== -1) { ... }
RECURSIVE AssembleLines(_)
AssembleLines(s) ==
    IF IndexOfNL(s.buffer, 1) = 0 THEN s
    ELSE LET line == LineOf(s.buffer)
             s0 == [s EXCEPT !.buffer = RestOf(s.buffer)]
             data == DataOf(line)
         IN  IF ~StartsWithData(line) THEN AssembleLines(s0)
             ELSE IF data = <<>> THEN AssembleLines(s0)
             ELSE IF data = <<DONE>> THEN Return(s0, FilterBoolean(s0.toolCalls))
             ELSE IF ~ParsesAsJson(data) THEN AssembleLines(s0)
             ELSE LET obj == data[1].obj
                      s1 == AssembleMeta(s0, obj)
                      s2 == [s1 EXCEPT !.assistantText = obj.message_content.v]
                  IN  IF IsString(obj.message_content)
                      THEN IF obj.message_tool_calls.isArray
                           THEN Return(s2, AsToolCalls(obj.message_tool_calls.items))
                           ELSE AssembleLines(s2)
                      ELSE AssembleLines(AssembleDelta(s1, obj))

(* ----------------------- request normalizers -------------------------- *)

\* a ChatCompletionsMessage; tool_calls holds ToolCall values (see Slot)
Msg(role, content, tool_calls, tool_call_id) ==
    [role |-> role, content |-> content, tool_calls |-> tool_calls,
     tool_call_id |-> tool_call_id]

\* String(x ?? "")
StringOr(x) == IF Nullish(x) THEN <<>> ELSE JsString(x)

TextPartTypes == { JStr(<<"input_text">>), JStr(<<"text">>), JStr(<<"output_text">>) }

\* m.content.map(p => ... ? p.text : null).filter(Boolean).join("")
RECURSIVE PartsText(_)
PartsText(parts) ==
    IF parts = <<>> THEN <<>>
    ELSE LET p == Head(parts).val
         IN  (IF Get(p, "type") \in TextPartTypes /\ JTruthy(Get(p, "text"))
              THEN JsString(Get(p, "text")) ELSE <<>>) \o PartsText(Tail(parts))

\* inputToMessages if it took every item for a user message
ItemToMessage_UserOnly(m) ==
    Msg(<<"user">>, StringOr(Get(m, "content")), <<>>, <<>>)

\* the message inputToMessages pushes for one item of the input array
ItemToMessage(m) ==
    LET type == Get(m, "type")
        content == Get(m, "content")
    IN  IF type = JStr(<<"function_call">>)
        THEN Msg(<<"assistant">>, <<>>,
                 <<Slot(StringOr(Get(m, "call_id")), StringOr(Get(m, "name")),
                        IF Get(m, "arguments").t = "str" THEN Get(m, "arguments").s
                        ELSE <<>>)>>, <<>>)
        ELSE IF type = JStr(<<"function_call_output">>)
        THEN Msg(<<"tool">>,
                 IF Get(m, "output").t = "str" THEN Get(m, "output").s
                 ELSE Stringify(IF Nullish(Get(m, "output")) THEN JNull
                                ELSE Get(m, "output")),
                 <<>>, StringOr(Get(m, "call_id")))
        ELSE IF type = JStr(<<"message">>) \/ JTruthy(Get(m, "role"))
        THEN Msg(IF Nullish(Get(m, "role")) THEN <<"user">> ELSE JsString(Get(m, "role")),
                 IF content.t = "str" THEN content.s
                 ELSE IF content.t = "arr" THEN PartsText(content.kids)
                 ELSE StringOr(content),
                 <<>>, <<>>)
        ELSE Msg(<<"user">>,
                 IF ~Nullish(content) THEN JsString(content) ELSE StringOr(m),
                 <<>>, <<>>)

RECURSIVE ItemsToMessages(_)
ItemsToMessages(items) ==
    IF items = <<>> THEN <<>>
    ELSE <<ItemToMessage(Head(items).val)>> \o ItemsToMessages(Tail(items))

inputToMessages(input) ==
    IF input.t = "str" THEN <<Msg(<<"user">>, input.s, <<>>, <<>>)>>
    ELSE IF input.t # "arr" THEN <<Msg(<<"user">>, StringOr(input), <<>>, <<>>)>>
    ELSE ItemsToMessages(input.kids)

\* the message pushed for one content block; id, name, text and the content of
\* a tool_result are strings here, as AnthropicMessagesRequest types them
BlockToMessages(role, block) ==
    LET type == Get(block, "type")
    IN  IF type = JStr(<<"text">>)
        THEN <<Msg(role, Get(block, "text").s, <<>>, <<>>)>>
        ELSE IF type = JStr(<<"tool_use">>)
        THEN <<Msg(<<"assistant">>, <<>>,
                   <<Slot(Get(block, "id").s, Get(block, "name").s,
                          IF Get(block, "input").t = "str" THEN Get(block, "input").s
                          ELSE Stringify(Get(block, "input")))>>, <<>>)>>
        ELSE IF type = JStr(<<"tool_result">>)
        THEN <<Msg(<<"tool">>, Get(block, "content").s, <<>>,
                   Get(block, "tool_use_id").s)>>
        ELSE <<>>

RECURSIVE BlocksToMessages(_, _)
BlocksToMessages(role, blocks) ==
    IF blocks = <<>> THEN <<>>
    ELSE BlockToMessages(role, Head(blocks).val) \o BlocksToMessages(role, Tail(blocks))

RECURSIVE AnthropicMessages(_)
AnthropicMessages(messages) ==
    IF messages = <<>> THEN <<>>
    ELSE LET msg == Head(messages).val
             role == Get(msg, "role").s
         IN  (IF Get(msg, "content").t = "str"
              THEN <<Msg(role, Get(msg, "content").s, <<>>, <<>>)>>
              ELSE BlocksToMessages(role, Get(msg, "content").kids))
             \o AnthropicMessages(Tail(messages))

anthropicToOpenAIMessages(messages, system) ==
    (IF JTruthy(system) THEN <<Msg(<<"system">>, system.s, <<>>, <<>>)>> ELSE <<>>)
        \o AnthropicMessages(messages.kids)

(* --------------------------- JSON recovery ---------------------------- *)

\* text.trim()
RECURSIVE TrimEnd(_)
TrimEnd(text) ==
    IF text # <<>> /\ text[Len(text)] = " " THEN TrimEnd(SubSeq(text, 1, Len(text) - 1))
    ELSE text

Trim(text) == TrimEnd(SubSeq(text, SkipWs(text, 1), Len(text)))

\* s.indexOf(ch) from position i on, counted from 1; 0 when there is none
RECURSIVE IndexOfChar(_, _, _)
IndexOfChar(text, ch, i) ==
    IF i > Len(text) THEN 0
    ELSE IF text[i] = ch THEN i ELSE IndexOfChar(text, ch, i + 1)

NoValue == [ok |-> FALSE, val |-> JNone]

\* try { return JSON.parse(candidate) } catch { return null }
ParseOrNull(candidate) ==
    IF JSONparse(candidate).ok THEN [ok |-> TRUE, val |-> JSONparse(candidate).val]
    ELSE NoValue

\* the for loop: depth counts `open` and `close` from `start` on
RECURSIVE WalkDepth(_, _, _, _, _, _)
WalkDepth(text, start, i, depth, open, close) ==
    IF i > Len(text) THEN NoValue
    ELSE LET d == depth + (IF text[i] = open THEN 1 ELSE 0)
                        - (IF text[i] = close THEN 1 ELSE 0)
         IN  IF d = 0 THEN ParseOrNull(SubSeq(text, start, i))
             ELSE WalkDepth(text, start, i + 1, d, open, close)

\* the recovery if it started at the first "[" whenever there is one
extractProbablyJSON_ArrayFirst(text) ==
    LET t == Trim(text)
        direct == \/ (t[1] = "{" /\ t[Len(t)] = "}")
                  \/ (t[1] = "[" /\ t[Len(t)] = "]")
        firstObj == IndexOfChar(t, "{", 1)
        firstArr == IndexOfChar(t, "[", 1)
    IN  IF t = <<>> THEN NoValue
        ELSE IF direct /\ JSONparse(t).ok THEN ParseOrNull(t)
        ELSE IF firstArr # 0 THEN WalkDepth(t, firstArr, firstArr, 0, "[", "]")
        ELSE IF firstObj # 0 THEN WalkDepth(t, firstObj, firstObj, 0, "{", "}")
        ELSE NoValue

\* ok is FALSE where extractProbablyJSON returns null
extractProbablyJSON(text) ==
    LET t == Trim(text)
        direct == \/ (t[1] = "{" /\ t[Len(t)] = "}")
                  \/ (t[1] = "[" /\ t[Len(t)] = "]")
        firstObj == IndexOfChar(t, "{", 1)
        firstArr == IndexOfChar(t, "[", 1)
    IN  IF t = <<>> THEN NoValue
        ELSE IF direct /\ JSONparse(t).ok THEN ParseOrNull(t)
        ELSE IF firstObj # 0 /\ (firstArr = 0 \/ firstObj < firstArr)
        THEN WalkDepth(t, firstObj, firstObj, 0, "{", "}")
        ELSE IF firstArr # 0 THEN WalkDepth(t, firstArr, firstArr, 0, "[", "]")
        ELSE NoValue

(* ------------- the bodies of the buffered endpoints ------------------- *)

\* no body built yet
NoReply ==
    [kind |-> "none", model |-> <<>>, content |-> <<>>, finish_reason |-> "",
     tool_calls |-> <<>>, usage |-> 0, output |-> <<>>, output_text |-> <<>>]

\* x || fallback for a string
OrElse(x, fallback) == IF x = <<>> THEN fallback ELSE x

\* buildChatCompletionResponse(idPrefix, model, messageContent): the message is
\* {role, content}, finish_reason is "stop", usage is null
buildChatCompletionResponse(requestedModel, messageContent) ==
    [NoReply EXCEPT !.kind = "chat", !.model = requestedModel,
                    !.content = messageContent, !.finish_reason = "stop",
                    !.usage = 0]

\* one element of the output of a Responses body
OutputItem(type, content, call_id, name, arguments) ==
    [type |-> type, content |-> content, call_id |-> call_id, name |-> name,
     arguments |-> arguments]

RECURSIVE FunctionCallItems(_)
FunctionCallItems(calls) ==
    IF calls = <<>> THEN <<>>
    ELSE <<OutputItem("function_call", <<>>, Head(calls).id, Head(calls).name,
                      Head(calls).arguments)>> \o FunctionCallItems(Tail(calls))

\* buildResponsesProxyOutput({model, assistantText, toolCalls, request})
buildResponsesProxyOutput(requestedModel, text, calls, requestUsage) ==
    [NoReply EXCEPT
        !.kind = "responses", !.model = requestedModel,
        !.output =
            <<OutputItem("message",
                         IF text # <<>> THEN <<[type |-> "output_text", text |-> text]>>
                         ELSE <<>>,
                         <<>>, <<>>, <<>>)>> \o FunctionCallItems(calls),
        !.usage = requestUsage, !.output_text = text]

\* parseUpstreamChatCompletionJson(json, requestedModel)
parseUpstreamChatCompletionJson(json, requestedModel) ==
    [assistantText |-> StringOrEmpty(json.message_content),
     toolCalls |-> IF json.message_tool_calls.isArray
                   THEN AsToolCalls(json.message_tool_calls.items) ELSE <<>>,
     model |-> IF IsString(json.model) THEN json.model.v ELSE requestedModel,
     usage |-> json.usage]

\* pickString(request.model, this.modelRepository.defaultModel())
ModelOf(body) ==
    IF Get(body, "model").t = "str" THEN Get(body, "model").s ELSE RequestedModel

\* request.text?.format?.type
FormatOf(body) == Get(Get(Get(body, "text"), "format"), "type")

\* createResponse without the json_object branch
ResponsesReply_NoRecovery(assembled, body, requestedModel) ==
    buildResponsesProxyOutput(OrElse(assembled.model, requestedModel),
                              assembled.assistantText, assembled.toolCalls,
                              assembled.usage)

\* createResponse from `assembled` on: JSON recovery, then the body
ResponsesReply(assembled, body, requestedModel) ==
    LET parsed == extractProbablyJSON(assembled.assistantText)
        text == IF FormatOf(body) = JStr(<<"json_object">>)
                    /\ parsed.ok /\ ~Nullish(parsed.val)
                THEN Stringify(parsed.val)
                ELSE assembled.assistantText
    IN  buildResponsesProxyOutput(OrElse(assembled.model, requestedModel), text,
                                  assembled.toolCalls, assembled.usage)

(* ------------------------- the HTTP edge ------------------------------ *)

NoRequest ==
    [endpoint |-> "", xProxyKey |-> Undefined, xApiKey |-> Undefined,
     authorization |-> Undefined, body |-> JObj(<<>>)]

NoChatReq ==
    [url |-> "", href |-> <<>>, model |-> <<>>, messages |-> <<>>, stream |-> FALSE,
     tools |-> JNone, tool_choice |-> JNone]

NoUpResp == [status |-> 0, contentType |-> "", kind |-> "", text |-> <<>>, json |-> EmptyObj]

NoHttp == [status |-> 0, kind |-> ""]

\* the HTTP answer and the end of the handler
Answer(status, kind) ==
    /\ http' = [status |-> status, kind |-> kind]
    /\ pc' = "done"

\* new URL(input): a URL text is an origin, or an origin and a path; any other
\* text does not parse
Origin == "http://h"

ensureUrl(input) ==
    IF input # <<>> /\ Len(input) <= 2 /\ input[1] = Origin
    THEN [ok |-> TRUE, origin |-> <<input[1]>>,
          pathname |-> IF Len(input) = 2 THEN input[2] ELSE "/"]
    ELSE [ok |-> FALSE, origin |-> <<>>, pathname |-> ""]

\* upstreamUrlFor that takes any text for a base URL
upstreamUrlFor_Unchecked(customLlmUrl, pathname) == customLlmUrl \o <<pathname>>

\* upstreamUrlFor(customLlmUrl, pathname): <<>> stands for null
upstreamUrlFor(customLlmUrl, pathname) ==
    LET url == ensureUrl(customLlmUrl)
    IN  IF customLlmUrl = <<>> THEN <<>>
        ELSE IF ~url.ok THEN <<>>
        ELSE IF url.pathname \in {"/", ""} THEN url.origin \o <<pathname>>
        ELSE IF pathname = "/v1/chat/completions" THEN url.origin \o <<url.pathname>>
        ELSE url.origin \o <<pathname>>

\* fetch(url, {body: JSON.stringify(requestBody)}): the handler awaits the answer
Fetch(url, requestedModel, messages, upstreamStream, tools, tool_choice) ==
    /\ chatReq' = [url |-> url, href |-> upstreamUrlFor(config.customLlmUrl, url),
                   model |-> requestedModel, messages |-> messages,
                   stream |-> upstreamStream,
                   tools |-> tools, tool_choice |-> tool_choice]
    /\ pc' = "fetching"
    /\ UNCHANGED http

\* (c.req.header(name) || "").trim()
HeaderOrEmpty(h) == Trim(OrEmpty(h))

\* authorization?.replace(/^Bearer\s+/i, ""): a header is a sequence of words,
\* white space and key characters
StripBearer(h) ==
    IF ~IsString(h) THEN Undefined
    ELSE IF Len(h.v) >= 2 /\ h.v[1] \in {"Bearer", "bearer"} /\ h.v[2] = " "
    THEN Str(SubSeq(h.v, SkipWs(h.v, 2), Len(h.v)))
    ELSE h

\* x-api-key || authorization without its Bearer prefix || ""
AnthropicKey(r) ==
    Trim(IF Truthy(r.xApiKey) THEN r.xApiKey.v ELSE OrEmpty(StripBearer(r.authorization)))

\* toContentfulStatus(status)
toContentfulStatus(status) == IF status >= 200 /\ status <= 599 THEN status ELSE 500

\* the status an UpstreamProxyError carries
UpstreamProxyErrorStatus(upstreamStatus) ==
    IF upstreamStatus >= 400 /\ upstreamStatus < 600 THEN upstreamStatus ELSE 502

\* upstreamResp.ok
Ok(status) == status >= 200 /\ status <= 299

\* tool_calls of a Chat Completions message as ToolCall values
RECURSIVE NodeToolCalls(_)
NodeToolCalls(kids) ==
    IF kids = <<>> THEN <<>>
    ELSE LET tc == Head(kids).val
         IN  <<Slot(Get(tc, "id").s, Get(Get(tc, "function"), "name").s,
                    Get(Get(tc, "function"), "arguments").s)>>
                \o NodeToolCalls(Tail(kids))

\* msg.content.filter(part => part?.type === "text").map(part => part?.text ?? "").join("")
RECURSIVE ChatPartsText(_)
ChatPartsText(parts) ==
    IF parts = <<>> THEN <<>>
    ELSE (IF Get(Head(parts).val, "type") = JStr(<<"text">>)
          THEN StringOr(Get(Head(parts).val, "text")) ELSE <<>>)
            \o ChatPartsText(Tail(parts))

\* normalizedMessages: a content that is an array of parts becomes one string,
\* the rest of the message is passed on as it is
RECURSIVE NormalizedMessages(_)
NormalizedMessages(msgs) ==
    IF msgs = <<>> THEN <<>>
    ELSE LET msg == Head(msgs).val
         IN  <<Msg(Get(msg, "role").s,
                   IF Get(msg, "content").t = "arr"
                   THEN ChatPartsText(Get(msg, "content").kids)
                   ELSE Get(msg, "content").s,
                   NodeToolCalls(Get(msg, "tool_calls").kids),
                   Get(msg, "tool_call_id").s)>> \o NormalizedMessages(Tail(msgs))

(* ------------------------ tools and tool_choice ----------------------- *)

\* {type: "function", function}
FunctionTool(function) ==
    JObj(<<Kid(<<"type">>, JStr(<<"function">>)), Kid(<<"function">>, function)>>)

\* the members of an object literal that JSON.stringify writes: those whose
\* value is not undefined
RECURSIVE Defined(_)
Defined(kids) ==
    IF kids = <<>> THEN <<>>
    ELSE (IF Head(kids).val = JNone THEN <<>> ELSE <<Head(kids)>>) \o Defined(Tail(kids))

\* typeof x === "object" for a value that is not null
IsObjectValue(x) == x.t \in {"obj", "arr"}

\* the for loop of normalizeTools
RECURSIVE NormalizedTools(_)
NormalizedTools(kids) ==
    IF kids = <<>> THEN <<>>
    ELSE LET tool == Head(kids).val
             rest == NormalizedTools(Tail(kids))
         IN  IF ~IsObjectValue(tool) THEN rest
             ELSE IF Get(tool, "type") # JStr(<<"function">>) THEN rest
             ELSE IF IsObjectValue(Get(tool, "function")) THEN <<Kid(<<>>, tool)>> \o rest
             ELSE IF Get(tool, "name").t = "str"
             THEN <<Kid(<<>>, FunctionTool(JObj(Defined(
                      <<Kid(<<"name">>, Get(tool, "name")),
                        Kid(<<"description">>,
                            IF Get(tool, "description").t = "str"
                            THEN Get(tool, "description") ELSE JNone),
                        Kid(<<"parameters">>, Get(tool, "parameters"))>>))))>> \o rest
             ELSE rest

normalizeTools(tools) ==
    IF tools.t # "arr" THEN JNone ELSE JArr(NormalizedTools(tools.kids))

normalizeToolChoice(toolChoice) ==
    IF ~JTruthy(toolChoice) THEN JNone
    ELSE IF toolChoice.t = "str" THEN toolChoice
    ELSE IF ~IsObjectValue(toolChoice) THEN JNone
    ELSE IF Get(toolChoice, "type") # JStr(<<"function">>) THEN toolChoice
    ELSE IF /\ IsObjectValue(Get(toolChoice, "function"))
            /\ Get(Get(toolChoice, "function"), "name").t = "str"
    THEN toolChoice
    ELSE IF Get(toolChoice, "name").t = "str"
    THEN FunctionTool(JObj(<<Kid(<<"name">>, Get(toolChoice, "name"))>>))
    ELSE toolChoice

\* tools.map(...) of anthropicToOpenAITools
RECURSIVE AnthropicTools(_)
AnthropicTools(kids) ==
    IF kids = <<>> THEN <<>>
    ELSE LET tool == Head(kids).val
         IN  <<Kid(<<>>, FunctionTool(JObj(Defined(
                   <<Kid(<<"name">>, Get(tool, "name")),
                     Kid(<<"description">>, Get(tool, "description")),
                     Kid(<<"parameters">>, Get(tool, "input_schema"))>>))))>>
             \o AnthropicTools(Tail(kids))

\* tools is an array or absent, as AnthropicMessagesRequest types it
anthropicToOpenAITools(tools) ==
    IF tools.t # "arr" \/ tools.kids = <<>> THEN JNone
    ELSE JArr(AnthropicTools(tools.kids))

anthropicToOpenAIToolChoice(toolChoice) ==
    IF ~JTruthy(toolChoice) THEN JNone
    ELSE IF Get(toolChoice, "type") = JStr(<<"auto">>) THEN JStr(<<"auto">>)
    ELSE IF Get(toolChoice, "type") = JStr(<<"any">>) THEN JStr(<<"required">>)
    ELSE IF Get(toolChoice, "type") = JStr(<<"tool">>)
    THEN FunctionTool(JObj(Defined(<<Kid(<<"name">>, Get(toolChoice, "name"))>>)))
    ELSE JNone

(* ------------------- what the upstream can send ----------------------- *)

Content(c) == [Delta EXCEPT !.content = Str(c)]

Reasoning(c, r) == [Delta EXCEPT !.content = c, !.reasoning_content = Str(r)]

ToolDelta(items) == [Delta EXCEPT !.tool_calls = ToolCalls(items)]

Finish(obj, reason) == [obj EXCEPT !.finish_reason = Str(<<reason>>)]

\* the first fragment of a call (id, name, empty arguments) and a later
\* fragment (arguments, and another id and name than the first one had)
FirstTC(i) == TC(i, Str(<<"p">>), Str(<<"f">>), Str(<<>>))

NextTC(i) == TC(i, Str(<<"q">>), Str(<<"g">>), Str(<<"x">>))

TextEvents ==
    { Content(<<"a">>),
      [Reasoning(Null, <<"r">>) EXCEPT !.model = Str(<<"u">>)],
      Reasoning(Str(<<>>), <<"r">>) }

ToolEvents ==
    { ToolDelta(<<tc>>) : tc \in UNION { {FirstTC(i), NextTC(i)} : i \in 0..MaxToolIndex } }
    \cup { ToolDelta(<<TC(NoIndex, Undefined, Undefined, Str(<<"y">>))>>),
           ToolDelta(<<FirstTC(MaxToolIndex), NextTC(0)>>) }

FinishReasons == {"stop", "length", "tool_calls", "content_filter"}

FinishEvents ==
    { Finish(Delta, "stop"), Finish(EmptyObj, "length"), Finish(Delta, "tool_calls"),
      Finish(Delta, "content_filter"), Finish(Content(<<"a">>), "stop") }

\* the bodies the upstream can answer a non-streaming request with
UpstreamJsons ==
    { [EmptyObj EXCEPT !.message_content = c, !.message_tool_calls = t,
                       !.finish_reason = f, !.usage = u] :
        c \in {Null, Str(<<"a">>)},
        t \in {NoToolCalls, ToolCalls(<<ToolCall(<<"p">>, <<"f">>, <<"{", "}">>)>>),
               ToolCalls(<<ToolCall(<<"p">>, <<"f">>, <<"x">>)>>)},
        f \in {Undefined, Null} \cup { Str(<<r>>) : r \in FinishReasons },
        u \in {0, 5} }

ProjEvents == TextEvents \cup ToolEvents \cup FinishEvents

\* the events the assembler is fed
AsmEvents ==
    { Content(<<"a">>), [Delta EXCEPT !.text = Str(<<"b">>)], Reasoning(Null, <<"r">>) }
    \cup { ToolDelta(<<tc>>) :
             tc \in UNION { {FirstTC(i), NextTC(i)} : i \in 0..MaxToolIndex } }
    \cup { ToolDelta(<<TC(NoIndex, Undefined, Undefined, Str(<<"y">>))>>),
           [EmptyObj EXCEPT !.message_content = Str(<<"F">>)],
           [EmptyObj EXCEPT !.message_content = Str(<<"F">>),
                            !.message_tool_calls =
                                ToolCalls(<<ToolCall(<<"p">>, <<"f">>, <<"x">>)>>)],
           Finish([Delta EXCEPT !.usage = 5, !.model = Str(<<"u">>)], "length") }

AsmBodies == { Json(e) : e \in AsmEvents } \cup {DONE, BAD}

\* what can follow "data:" on a line
ProjBodies == { Json(e) : e \in ProjEvents } \cup {DONE, BAD}

\* lines that can follow another line in the same chunk
TrailLines(bodies) ==
    { <<NL>>, <<PREFIX, DONE, NL>>, <<PREFIX, Json(Content(<<"a">>)), NL>> }

\* the chunks reader.read() can return when `partial` is the text the upstream
\* has sent since its last line feed
Chunks(partial, bodies) ==
    IF partial = <<>>
    THEN { <<PREFIX, b, NL>> : b \in bodies }
         \cup { <<PREFIX, b, NL>> \o t : b \in bodies, t \in TrailLines(bodies) }
         \cup { <<COMMENT, NL>>, <<PREFIX, NL>>, <<NL>> }
         \cup { <<PREFIX, b>> : b \in bodies }
         \cup { <<PREFIX>>, <<COMMENT>> }
    ELSE IF partial = <<PREFIX>>
    THEN { <<b, NL>> : b \in bodies } \cup { <<b>> : b \in bodies } \cup { <<NL>> }
    ELSE { <<NL>> } \cup { <<NL>> \o t : t \in TrailLines(bodies) }

\* number of line feeds in a chunk
RECURSIVE CountNL(_)
CountNL(chunk) ==
    IF chunk = <<>> THEN 0
    ELSE (IF Head(chunk) = NL THEN 1 ELSE 0) + CountNL(Tail(chunk))

\* the text after the last line feed
RECURSIVE AfterLastNL(_)
AfterLastNL(text) ==
    IF IndexOfNL(text, 1) = 0 THEN text ELSE AfterLastNL(RestOf(text))

\* the lines of a text that a line feed ends
RECURSIVE CompleteLines(_)
CompleteLines(text) ==
    IF IndexOfNL(text, 1) = 0 THEN <<>>
    ELSE <<LineOf(text)>> \o CompleteLines(RestOf(text))

\* the events of a stream: the objects of its data lines before [DONE]
RECURSIVE EventsOfLines(_)
EventsOfLines(lines) ==
    IF lines = <<>> THEN <<>>
    ELSE LET line == Head(lines)
         IN  IF line = <<PREFIX, DONE>> THEN <<>>
             ELSE (IF StartsWithData(line) /\ ParsesAsJson(DataOf(line))
                   THEN <<DataOf(line)[1].obj>> ELSE <<>>)
                  \o EventsOfLines(Tail(lines))

\* lines the upstream has begun once it has sent `chunk`
LinesAfter(chunk) ==
    upLines + CountNL(chunk)
        + (IF AfterLastNL(upPartial \o chunk) = <<>> THEN 0 ELSE 1)

(* ----------------------------- the state ------------------------------ *)

vars ==
    << buffer, sentMessageStart, contentBlockStarted, contentBlockStopped,
       currentToolCallIndex, toolCallsInProgress, closedToolCallIndices,
       out, closed, seen, finishSeen, closeAt, stream, response, upJson,
       asmBuffer, assistantText, model, usage, toolCalls, returned, result,
       upEvents, upLines, upPartial, upDone, reply,
       config, request, pc, chatReq, upResp, http, cancelled, upstreamReader >>

\* the variables of the projector and of the non-streaming Anthropic path
projVars ==
    << buffer, sentMessageStart, contentBlockStarted, contentBlockStopped,
       currentToolCallIndex, toolCallsInProgress, closedToolCallIndices,
       out, closed, seen, finishSeen, closeAt, response, upJson >>

\* the variables of the assembler
asmVars == << asmBuffer, assistantText, model, usage, toolCalls, returned, result >>

\* the variables of the HTTP edge
edgeVars == << config, request, pc, chatReq, upResp, http >>

\* the variables of the upstream byte stream
upVars == << upEvents, upLines, upPartial, upDone, cancelled, upstreamReader >>

\* the closure variables of createAnthropicStreamFromOpenAI as one record
ProjState ==
    [buffer |-> buffer, sentMessageStart |-> sentMessageStart,
     contentBlockStarted |-> contentBlockStarted,
     contentBlockStopped |-> contentBlockStopped,
     currentToolCallIndex |-> currentToolCallIndex,
     toolCallsInProgress |-> toolCallsInProgress,
     closedToolCallIndices |-> closedToolCallIndices,
     out |-> out, closed |-> closed, seen |-> seen, finishSeen |-> finishSeen,
     closeAt |-> closeAt]

SetProjState(s) ==
    /\ buffer' = s.buffer
    /\ sentMessageStart' = s.sentMessageStart
    /\ contentBlockStarted' = s.contentBlockStarted
    /\ contentBlockStopped' = s.contentBlockStopped
    /\ currentToolCallIndex' = s.currentToolCallIndex
    /\ toolCallsInProgress' = s.toolCallsInProgress
    /\ closedToolCallIndices' = s.closedToolCallIndices
    /\ out' = s.out
    /\ closed' = s.closed
    /\ seen' = s.seen
    /\ finishSeen' = s.finishSeen
    /\ closeAt' = s.closeAt

\* the streaming core before anything was read
InitStreams ==
    /\ buffer = <<>>
    /\ sentMessageStart = FALSE
    /\ contentBlockStarted = FALSE
    /\ contentBlockStopped = FALSE
    /\ currentToolCallIndex = -1
    /\ toolCallsInProgress = <<>>
    /\ closedToolCallIndices = {}
    /\ out = <<>>
    /\ closed = FALSE
    /\ seen = <<>>
    /\ finishSeen = Undefined
    /\ closeAt = 0
    /\ stream \in BOOLEAN
    /\ response = NoResponse
    /\ upJson = EmptyObj
    /\ asmBuffer = <<>>
    /\ assistantText = <<>>
    /\ model = RequestedModel
    /\ usage = 0
    /\ toolCalls = <<>>
    /\ returned = FALSE
    /\ result = NoResult
    /\ upEvents = <<>>
    /\ upLines = 0
    /\ upPartial = <<>>
    /\ upDone = FALSE
    /\ reply = NoReply
    /\ cancelled = FALSE
    /\ upstreamReader = "locked"

\* no request is being served
InitIdle ==
    /\ config = [proxyKey |-> <<>>, customLlmUrl |-> <<Origin>>]
    /\ request = NoRequest
    /\ pc = "idle"
    /\ chatReq = NoChatReq
    /\ upResp = NoUpResp
    /\ http = NoHttp

Init == InitStreams /\ InitIdle

\* pull(controller) when reader.read() returns a chunk
Pull ==
    /\ stream
    /\ ~closed
    /\ ~cancelled
    /\ ~upDone
    /\ \E chunk \in Chunks(upPartial, ProjBodies) :
          /\ LinesAfter(chunk) <= MaxLines
          /\ SetProjState(ProcessLines([ProjState EXCEPT !.buffer = @ \o chunk]))
          /\ upLines' = upLines + CountNL(chunk)
          /\ upPartial' = AfterLastNL(upPartial \o chunk)
    /\ UNCHANGED <<upDone, upEvents, stream, response, upJson>>
    /\ UNCHANGED asmVars
    /\ UNCHANGED reply
    /\ UNCHANGED edgeVars
    /\ UNCHANGED <<cancelled, upstreamReader>>

\* pull(controller) when reader.read() returns done
PullDone ==
    /\ stream
    /\ ~closed
    /\ ~cancelled
    /\ ~upDone
    /\ SetProjState(EofBranch(ProjState))
    /\ upDone' = TRUE
    /\ UNCHANGED <<upLines, upPartial, upEvents, stream, response, upJson>>
    /\ UNCHANGED asmVars
    /\ UNCHANGED reply
    /\ UNCHANGED edgeVars
    /\ UNCHANGED <<cancelled, upstreamReader>>

\* createAnthropicMessage without stream: the upstream JSON body is converted
RespondBuffered ==
    /\ ~stream
    /\ response = NoResponse
    /\ \E json \in UpstreamJsons :
          /\ response' = openAIToAnthropicResponse(json, RequestedModel)
          /\ upJson' = json
    /\ UNCHANGED <<buffer, sentMessageStart, contentBlockStarted, contentBlockStopped,
                   currentToolCallIndex, toolCallsInProgress, closedToolCallIndices,
                   out, closed, seen, finishSeen, closeAt, stream,
                   upEvents, upLines, upPartial, upDone>>
    /\ UNCHANGED asmVars
    /\ UNCHANGED reply
    /\ UNCHANGED edgeVars
    /\ UNCHANGED <<cancelled, upstreamReader>>

Next == Pull \/ PullDone \/ RespondBuffered

\* the local variables of readSSEAndAssembleChatCompletion as one record
AsmState ==
    [buffer |-> asmBuffer, assistantText |-> assistantText, model |-> model,
     usage |-> usage, toolCalls |-> toolCalls, returned |-> returned,
     result |-> result]

SetAsmState(s) ==
    /\ asmBuffer' = s.buffer
    /\ assistantText' = s.assistantText
    /\ model' = s.model
    /\ usage' = s.usage
    /\ toolCalls' = s.toolCalls
    /\ returned' = s.returned
    /\ result' = s.result

\* one turn of while (true) in which reader.read() returns a chunk
AsmRead ==
    /\ ~returned
    /\ ~upDone
    /\ \E chunk \in Chunks(upPartial, AsmBodies) :
          /\ LinesAfter(chunk) <= MaxLines
          /\ SetAsmState(AssembleLines([AsmState EXCEPT !.buffer = @ \o chunk]))
          /\ upLines' = upLines + CountNL(chunk)
          /\ upPartial' = AfterLastNL(upPartial \o chunk)
          /\ upEvents' = upEvents \o EventsOfLines(CompleteLines(upPartial \o chunk))
    /\ UNCHANGED <<upDone, stream>>
    /\ UNCHANGED projVars
    /\ UNCHANGED reply
    /\ UNCHANGED edgeVars
    /\ UNCHANGED <<cancelled, upstreamReader>>

\* the turn in which reader.read() returns done
AsmReadDone ==
    /\ ~returned
    /\ ~upDone
    /\ SetAsmState(Return(AsmState, FilterBoolean(toolCalls)))
    /\ upDone' = TRUE
    /\ UNCHANGED <<upLines, upPartial, upEvents, stream>>
    /\ UNCHANGED projVars
    /\ UNCHANGED reply
    /\ UNCHANGED edgeVars
    /\ UNCHANGED <<cancelled, upstreamReader>>

\* createChatCompletion once the upstream answer is assembled
RespondChat ==
    /\ returned
    /\ reply = NoReply
    /\ reply' = buildChatCompletionResponse(OrElse(result.model, RequestedModel),
                                            OrElse(result.assistantText, <<>>))
    /\ UNCHANGED <<upDone, upLines, upPartial, upEvents, stream>>
    /\ UNCHANGED projVars
    /\ UNCHANGED asmVars
    /\ UNCHANGED edgeVars
    /\ UNCHANGED <<cancelled, upstreamReader>>

\* createResponse once the upstream answer is assembled
RespondResponses ==
    /\ returned
    /\ reply = NoReply
    /\ reply' = ResponsesReply(result, request.body, ModelOf(request.body))
    /\ UNCHANGED <<upDone, upLines, upPartial, upEvents, stream>>
    /\ UNCHANGED projVars
    /\ UNCHANGED asmVars
    /\ UNCHANGED edgeVars
    /\ UNCHANGED <<cancelled, upstreamReader>>

NextAsm == AsmRead \/ AsmReadDone \/ RespondChat \/ RespondResponses

\* the assembler serves the buffered endpoints
InitAsm == Init /\ ~stream

SpecAsm == InitAsm /\ [][NextAsm]_vars

Spec == Init /\ [][Next]_vars

\* the consumer cancels the stream createAnthropicStreamFromOpenAI returned: its
\* underlying source has pull only, so the stream is cancelled, pull is not
\* called again, and nothing is done to the reader
Cancel ==
    /\ stream
    /\ ~closed
    /\ ~cancelled
    /\ cancelled' = TRUE
    /\ UNCHANGED upstreamReader
    /\ UNCHANGED <<upEvents, upLines, upPartial, upDone, stream, reply>>
    /\ UNCHANGED <<projVars, asmVars, edgeVars>>

NextCancel == Pull \/ PullDone \/ Cancel

\* a streaming POST /v1/messages whose consumer can go away
InitCancel == Init /\ stream

SpecCancel == InitCancel /\ [][NextCancel]_vars

(* ------------------------ the HTTP handlers --------------------------- *)

\* POST /v1/responses up to the fetch of createResponse
PostResponses ==
    /\ pc = "received"
    /\ request.endpoint = "/v1/responses"
    /\ LET body == request.body
           trimmed == IF Get(body, "model").t = "str" THEN Trim(Get(body, "model").s)
                      ELSE <<>>
           messages == inputToMessages(Get(body, "input"))
       IN  IF config.proxyKey # <<>> /\ HeaderOrEmpty(request.xProxyKey) # config.proxyKey
           THEN Answer(401, "error") /\ UNCHANGED chatReq
           ELSE IF trimmed = <<>> THEN Answer(400, "error") /\ UNCHANGED chatReq
           ELSE IF Nullish(Get(body, "input")) THEN Answer(400, "error") /\ UNCHANGED chatReq
           ELSE IF messages = <<>> THEN Answer(500, "error") /\ UNCHANGED chatReq
           ELSE IF upstreamUrlFor(config.customLlmUrl, "/v1/chat/completions") = <<>>
           THEN Answer(500, "error") /\ UNCHANGED chatReq
           ELSE Fetch("/v1/chat/completions", ModelOf(body),
                      (IF JTruthy(Get(body, "instructions"))
                       THEN <<Msg(<<"system">>, Get(body, "instructions").s, <<>>, <<>>)>>
                       ELSE <<>>) \o messages,
                      TRUE,
                      normalizeTools(Get(body, "tools")),
                      normalizeToolChoice(Get(body, "tool_choice")))
    /\ UNCHANGED <<config, request, upResp, reply, stream>>
    /\ UNCHANGED <<projVars, asmVars, upVars>>

\* POST /v1/chat/completions up to the fetch of createChatCompletion
PostChat ==
    /\ pc = "received"
    /\ request.endpoint = "/v1/chat/completions"
    /\ LET body == request.body
           messages == Get(body, "messages")
       IN  IF config.proxyKey # <<>> /\ HeaderOrEmpty(request.xProxyKey) # config.proxyKey
           THEN Answer(401, "error") /\ UNCHANGED chatReq
           ELSE IF messages.t # "arr" \/ messages.kids = <<>>
           THEN Answer(500, "error") /\ UNCHANGED chatReq
           ELSE IF upstreamUrlFor(config.customLlmUrl, "/v1/chat/completions") = <<>>
           THEN Answer(500, "error") /\ UNCHANGED chatReq
           ELSE Fetch("/v1/chat/completions", ModelOf(body),
                      NormalizedMessages(messages.kids),
                      Nullish(Get(body, "stream")) \/ Get(body, "stream") = JTrue,
                      Get(body, "tools"), Get(body, "tool_choice"))
    /\ UNCHANGED <<config, request, upResp, reply, stream>>
    /\ UNCHANGED <<projVars, asmVars, upVars>>

\* POST /v1/messages up to the fetch of createAnthropicMessage
PostMessages ==
    /\ pc = "received"
    /\ request.endpoint = "/v1/messages"
    /\ LET body == request.body
           messages == Get(body, "messages")
       IN  IF config.proxyKey # <<>> /\ AnthropicKey(request) # config.proxyKey
           THEN Answer(401, "error") /\ UNCHANGED chatReq
           ELSE IF ~JTruthy(Get(body, "model")) \/ Get(body, "model").t # "str"
           THEN Answer(400, "error") /\ UNCHANGED chatReq
           ELSE IF ~JTruthy(Get(body, "max_tokens")) \/ Get(body, "max_tokens").t # "num"
           THEN Answer(400, "error") /\ UNCHANGED chatReq
           ELSE IF messages.t # "arr" \/ messages.kids = <<>>
           THEN Answer(400, "error") /\ UNCHANGED chatReq
           ELSE IF upstreamUrlFor(config.customLlmUrl, "/v1/chat/completions") = <<>>
           THEN Answer(500, "error") /\ UNCHANGED chatReq
           ELSE Fetch("/v1/chat/completions", ModelOf(body),
                      anthropicToOpenAIMessages(messages, Get(body, "system")),
                      Get(body, "stream") = JTrue,
                      anthropicToOpenAITools(Get(body, "tools")),
                      anthropicToOpenAIToolChoice(Get(body, "tool_choice")))
    /\ UNCHANGED <<config, request, upResp, reply, stream>>
    /\ UNCHANGED <<projVars, asmVars, upVars>>

\* GET /v1/models up to the fetch of listModels
GetModels ==
    /\ pc = "received"
    /\ request.endpoint = "/v1/models"
    /\ IF upstreamUrlFor(config.customLlmUrl, "/v1/models") = <<>>
       THEN Answer(200, "json") /\ UNCHANGED chatReq
       ELSE Fetch("/v1/models", <<>>, <<>>, FALSE, JNone, JNone)
    /\ UNCHANGED <<config, request, upResp, reply, stream>>
    /\ UNCHANGED <<projVars, asmVars, upVars>>

(* ------------------ reading the emitted event sequence ---------------- *)

\* positions of `out` holding an event of this type
PosOfType(type) == { i \in 1..Len(out) : out[i].type = type }

IsStart(e, index) == e.type = "content_block_start" /\ e.index = index

IsStop(e, index) == e.type = "content_block_stop" /\ e.index = index


\* content-block indices the projector can use
BlockIndices == 0..(MaxToolIndex + 1)

\* the stream was closed by the finish branch / by the EOF branch
ClosedByFinish == closed /\ IsString(finishSeen)

ClosedByEof == closed /\ ~IsString(finishSeen)

(* ------------------------------- C1 ----------------------------------- *)

\* C1: every projected stream has exactly one message_start, emitted first,
\* and ends with exactly one message_delta immediately followed by exactly one
\* message_stop, with nothing after message_stop; also when the upstream
\* reaches EOF before any data event was parsed.
C1_MessageEnvelope ==
    /\ out # <<>> => out[1].type = "message_start"
    /\ Cardinality(PosOfType("message_start")) <= 1
    /\ \A i \in PosOfType("message_stop") : i = Len(out)
    /\ closed =>
          /\ Cardinality(PosOfType("message_start")) = 1
          /\ PosOfType("message_delta") = {Len(out) - 1}
          /\ PosOfType("message_stop") = {Len(out)}

(* ------------------------------- C2 ----------------------------------- *)

\* C2: a content_block_delta(i) is never emitted before content_block_start(i)
\* nor after content_block_stop(i).
C2_DeltaInsideBlock ==
    \A i \in 1..Len(out) :
        out[i].type = "content_block_delta" =>
            /\ \E j \in 1..(i - 1) : IsStart(out[j], out[i].index)
            /\ ~\E j \in 1..(i - 1) : IsStop(out[j], out[i].index)

(* ------------------------------- C3 ----------------------------------- *)

\* C3: when a tool-use block is started, the text block is not open: if
\* content_block_start(0) was emitted, content_block_stop(0) was emitted too.
C3_TextClosedBeforeTool ==
    \A i \in 1..Len(out) :
        (out[i].type = "content_block_start" /\ out[i].block = "tool_use") =>
            ((\E j \in 1..(i - 1) : IsStart(out[j], 0))
                => (\E j \in 1..(i - 1) : IsStop(out[j], 0)))

(* ------------------------------- C4 ----------------------------------- *)

\* C4: each content-block index is started at most once, a stop is emitted only
\* for a started index and at most once, and when message_delta is emitted
\* every started block has its stop before it.
C4_BlocksBalanced ==
    /\ \A i, j \in PosOfType("content_block_start") :
          out[i].index = out[j].index => i = j
    /\ \A i \in PosOfType("content_block_stop") :
          /\ \E j \in 1..(i - 1) : IsStart(out[j], out[i].index)
          /\ ~\E j \in 1..(i - 1) : IsStop(out[j], out[i].index)
    /\ \A m \in PosOfType("message_delta") :
          \A j \in PosOfType("content_block_start") :
              /\ j < m
              /\ \E k \in (j + 1)..(m - 1) : IsStop(out[k], out[j].index)

\* a closed stream in which the text block and a tool block were both started
C4_Witness ==
    /\ closed
    /\ \E i, j \in PosOfType("content_block_start") :
          out[i].block = "text" /\ out[j].block = "tool_use"

(* ------------------------------- C5 ----------------------------------- *)

\* the block `index` was started and not stopped in the event sequence p
OpenIn(p, index) ==
    /\ \E j \in 1..Len(p) : IsStart(p[j], index)
    /\ ~\E j \in 1..Len(p) : IsStop(p[j], index)

\* content_block_stop for the open tool blocks of p, in ascending index order
RECURSIVE AscendingStops(_, _)
AscendingStops(p, index) ==
    IF index > MaxToolIndex + 1 THEN <<>>
    ELSE (IF OpenIn(p, index) THEN <<BlockStop(index)>> ELSE <<>>)
            \o AscendingStops(p, index + 1)

\* the stop_reason the specification gives for a finish_reason
StopReasonTable(finish_reason) ==
    CASE finish_reason = <<"length">> -> "max_tokens"
      [] finish_reason = <<"tool_calls">> -> "tool_use"
      [] OTHER -> "end_turn"

\* what was enqueued before the closure began, and what the closure enqueued
BeforeClosure == SubSeq(out, 1, closeAt)

ClosureEvents == SubSeq(out, closeAt + 1, Len(out))

\* C5: on a finish_reason the closure is content_block_stop(0) iff the text
\* block is open, then content_block_stop of every open tool block in ascending
\* index order, then message_delta, then message_stop, and the stream closes.
C5_FinishClosureAscending ==
    IsString(finishSeen) =>
        /\ closed
        /\ ClosureEvents =
              (IF OpenIn(BeforeClosure, 0) THEN <<BlockStop(0)>> ELSE <<>>)
                 \o AscendingStops(BeforeClosure, 1)
                 \o << MessageDelta(StopReasonTable(finishSeen.v)), MessageStop >>

(* ------------------------------- C6 ----------------------------------- *)

\* the step in which reader.read() reports done
EofStep == ~upDone /\ upDone'

\* the events a step enqueued
Enqueued == SubSeq(out', Len(out) + 1, Len(out'))

\* C6: at EOF without a finish_reason the projector enqueues what the finish
\* branch would enqueue for a reason that maps to end_turn: a stop for the open
\* text block first, one stop for every open tool block, message_delta with
\* end_turn, message_stop, and closes; once closed nothing more is enqueued.
C6_EofClosure ==
    /\ [][EofStep =>
            LET n == Len(Enqueued)
                stops == SubSeq(Enqueued, 1, n - 2)
                open == { i \in BlockIndices : OpenIn(out, i) }
            IN  /\ closed'
                /\ out' = FinishBranch(ProjState, Str(<<"stop">>)).out
                /\ n = Cardinality(open) + 2
                /\ Enqueued[n - 1] = MessageDelta("end_turn")
                /\ Enqueued[n] = MessageStop
                /\ { stops[k].index : k \in 1..(n - 2) } = open
                /\ \A k \in 1..(n - 2) : stops[k].type = "content_block_stop"
                /\ 0 \in open => stops[1] = BlockStop(0)]_vars
    /\ [][closed => out' = out]_vars

\* EOF closed a stream in which the text block and a tool block were open
C6_Witness ==
    /\ ClosedByEof
    /\ OpenIn(BeforeClosure, 0)
    /\ \E i \in 1..(MaxToolIndex + 1) : OpenIn(BeforeClosure, i)

(* ------------------------------- C7 ----------------------------------- *)

\* the elements of delta.tool_calls of the objects handled so far, in order
RECURSIVE SeenToolCalls(_)
SeenToolCalls(k) ==
    IF k > Len(seen) THEN <<>>
    ELSE (IF seen[k].hasDelta /\ seen[k].tool_calls.isArray
          THEN seen[k].tool_calls.items ELSE <<>>) \o SeenToolCalls(k + 1)

\* tc.index ?? 0
UpstreamIndex(tc) == IF tc.index = NoIndex THEN 0 ELSE tc.index

\* what the k-th and later received fragments must produce downstream: a
\* tool_use start with the id and name of the first fragment of an index, and
\* one input_json_delta per fragment that carries arguments
RECURSIVE ExpectedToolEvents(_, _)
ExpectedToolEvents(tcs, k) ==
    IF k > Len(tcs) THEN <<>>
    ELSE LET tc == tcs[k]
             i == UpstreamIndex(tc)
             first == \A j \in 1..(k - 1) : UpstreamIndex(tcs[j]) # i
         IN  (IF first
              THEN <<ToolBlockStart(i + 1, OrEmpty(tc.id), OrEmpty(tc.name))>>
              ELSE <<>>)
             \o (IF Truthy(tc.arguments)
                 THEN <<InputJsonDelta(i + 1, tc.arguments.v)>>
                 ELSE <<>>)
             \o ExpectedToolEvents(tcs, k + 1)

IsToolEvent(e) == e.block \in {"tool_use", "input_json_delta"}

\* C7: the tool_use starts and input_json_delta events emitted are, in order,
\* those of the received tool-call fragments: block i+1 is opened with the id
\* and name of the first fragment of index i, every fragment with arguments
\* gives one input_json_delta on the block of its own index, in arrival order.
C7_ToolFragmentsInOrder ==
    SelectSeq(out, IsToolEvent) = ExpectedToolEvents(SeenToolCalls(1), 1)

\* fragments of two upstream indices were emitted, and one arrived with another
\* id than the id its block was opened with
C7_Witness ==
    /\ \E a, b \in 1..Len(out) :
          /\ out[a].block = "input_json_delta" /\ out[b].block = "input_json_delta"
          /\ out[a].index # out[b].index
    /\ LET tcs == SeenToolCalls(1)
       IN  \E j, k \in 1..Len(tcs) :
              /\ j < k
              /\ UpstreamIndex(tcs[j]) = UpstreamIndex(tcs[k])
              /\ tcs[j].id # tcs[k].id

(* ------------------------------- C8 ----------------------------------- *)

\* the handled objects whose delta carries this non-empty reasoning text
SeenReasoning(text) ==
    { k \in 1..Len(seen) :
        seen[k].hasDelta /\ IsString(seen[k].reasoning_content)
            /\ seen[k].reasoning_content.v = text }

\* C8: every delta whose reasoning_content is a non-empty string gives one
\* content_block_delta(0, text_delta) with that text, also when the delta
\* carries content "".
C8_ReasoningEmitted ==
    \A k \in 1..Len(seen) :
        (seen[k].hasDelta /\ Truthy(seen[k].reasoning_content)) =>
            LET text == seen[k].reasoning_content.v
            IN  Cardinality({ j \in 1..Len(out) : out[j] = TextDelta(text) })
                    >= Cardinality(SeenReasoning(text))

(* ------------------------------- C9 ----------------------------------- *)

\* C9: the stop_reason of message_delta and the stop_reason of the
\* non-streaming response are the same function of the upstream finish_reason:
\* length gives max_tokens, tool_calls gives tool_use, anything else (stop,
\* another value, none before EOF, null or absent) gives end_turn.
C9_StopReasonSame ==
    /\ ClosedByFinish =>
          /\ out[Len(out) - 1].stop_reason = StopReasonTable(finishSeen.v)
          /\ out[Len(out) - 1].stop_reason = AnthropicStopReason(finishSeen)
    /\ ClosedByEof =>
          /\ out[Len(out) - 1].stop_reason = "end_turn"
          /\ out[Len(out) - 1].stop_reason = AnthropicStopReason(Undefined)
    /\ response # NoResponse =>
          response.stop_reason =
              IF IsString(upJson.finish_reason)
              THEN StopReasonTable(upJson.finish_reason.v)
              ELSE "end_turn"

\* a stream closed by finish_reason "length"
C9_Witness ==
    /\ ClosedByFinish
    /\ finishSeen = Str(<<"length">>)
    /\ out[Len(out) - 1] = MessageDelta("max_tokens")

(* ------------------------------- C10 ---------------------------------- *)

\* all events of the stream: those of the complete lines and, when the stream
\* did not end at [DONE], the one of a last line that no line feed ends
StreamEvents ==
    upEvents \o (IF upPartial = <<>> THEN <<>> ELSE EventsOfLines(<<upPartial>>))

\* delta.content and delta.text of the events, concatenated in order
RECURSIVE ContentAndText(_)
ContentAndText(events) ==
    IF events = <<>> THEN <<>>
    ELSE StringOrEmpty(Head(events).content) \o StringOrEmpty(Head(events).text)
            \o ContentAndText(Tail(events))

\* C10: the assistantText of the assembled result is the concatenation, in
\* arrival order, of delta.content and delta.text of all events of the stream,
\* whether it ends with [DONE] or at EOF, with or without a final line feed.
C10_AssistantTextIsConcat ==
    returned => result.assistantText = ContentAndText(StreamEvents)

(* ------------------------------- C11 ---------------------------------- *)

\* the elements of delta.tool_calls of these events, in order
RECURSIVE DeltaToolCalls(_)
DeltaToolCalls(events) ==
    IF events = <<>> THEN <<>>
    ELSE (IF ~IsString(Head(events).message_content) /\ Head(events).tool_calls.isArray
          THEN Head(events).tool_calls.items ELSE <<>>)
            \o DeltaToolCalls(Tail(events))

\* the function.arguments fragments of upstream index i, concatenated in order
RECURSIVE ArgumentsOfIndex(_, _)
ArgumentsOfIndex(tcs, i) ==
    IF tcs = <<>> THEN <<>>
    ELSE (IF UpstreamIndex(Head(tcs)) = i THEN StringOrEmpty(Head(tcs).arguments)
          ELSE <<>>) \o ArgumentsOfIndex(Tail(tcs), i)

\* the upstream indices the read lines carried
ReadIndices == { UpstreamIndex(tc) : tc \in { DeltaToolCalls(upEvents)[k] :
                                              k \in 1..Len(DeltaToolCalls(upEvents)) } }

\* the k-th smallest of a set of indices
KthIndex(S, k) == CHOOSE i \in S : Cardinality({ j \in S : j < i }) = k - 1

\* the result took the tool calls of a full message object
Adopted ==
    \E k \in 1..Len(upEvents) :
        IsString(upEvents[k].message_content) /\ upEvents[k].message_tool_calls.isArray

\* C11: the arguments of every tool call of the assembled result (the k-th one
\* is the call of the k-th smallest upstream index) are the concatenation, in
\* arrival order, of all function.arguments fragments of the stream that carried
\* that index, an absent index counting as 0.
C11_ArgumentsAreConcat ==
    (returned /\ ~Adopted) =>
        /\ Len(result.toolCalls) = Cardinality(ReadIndices)
        /\ \A k \in 1..Len(result.toolCalls) :
              result.toolCalls[k].arguments =
                  ArgumentsOfIndex(DeltaToolCalls(StreamEvents), KthIndex(ReadIndices, k))

(* ------------------------------- C12 ---------------------------------- *)

\* the events the assembler read in this step
NewEvents == SubSeq(upEvents', Len(upEvents) + 1, Len(upEvents'))

\* a delta that carries reasoning_content and no other text
OnlyReasoning(e) ==
    /\ IsString(e.reasoning_content)
    /\ ~IsString(e.content) /\ ~IsString(e.text) /\ ~IsString(e.message_content)

\* C12: reading events whose deltas carry reasoning_content (and no content
\* and no text) leaves assistantText as it was: the reasoning is kept apart
\* from the assistant text.
C12_ReasoningKeptSeparate ==
    [][ (NewEvents # <<>> /\ \A k \in 1..Len(NewEvents) : OnlyReasoning(NewEvents[k]))
            => assistantText' = assistantText ]_vars

(* ------------------------------- C13 ---------------------------------- *)

\* the finish_reason captured from the events: the last one an event carried
RECURSIVE CapturedFinish(_)
CapturedFinish(events) ==
    IF events = <<>> THEN <<"stop">>
    ELSE LET e == events[Len(events)]
         IN  IF Truthy(e.finish_reason) THEN e.finish_reason.v
             ELSE CapturedFinish(SubSeq(events, 1, Len(events) - 1))

\* C13: the buffered Chat Completions body carries the finish_reason captured
\* from the upstream stream ("stop" when none was seen), every assembled tool
\* call under message.tool_calls, and the usage of the upstream (null if none).
C13_ChatOutputCarriesResult ==
    (reply.kind = "chat" /\ ~Adopted) =>
        /\ <<reply.finish_reason>> = CapturedFinish(upEvents)
        /\ reply.tool_calls = result.toolCalls
        /\ reply.usage = result.usage

(* --------------------- requests and upstream answers ------------------ *)

\* CUSTOM_LLM_URL: not set, not a URL, an origin, an origin and a path
CustomLlmUrls == { <<>>, <<"bad">>, <<Origin>>, <<Origin, "/x">> }

Configs ==
    { [proxyKey |-> k, customLlmUrl |-> u] : k \in { <<>>, <<"k">> }, u \in CustomLlmUrls }

ProxyKeyHeaders == { Undefined, Str(<<"k">>), Str(<<"w">>) }

AuthorizationHeaders ==
    { Undefined, Str(<<"Bearer", " ", "k">>), Str(<<"Bearer", " ", "w">>), Str(<<"k">>) }

\* {type: "function_call", call_id: "p", name: "f", arguments}
FunctionCall(arguments) ==
    JObj(<<Kid(<<"type">>, JStr(<<"function_call">>)), Kid(<<"call_id">>, JStr(<<"p">>)),
           Kid(<<"name">>, JStr(<<"f">>)), Kid(<<"arguments">>, arguments)>>)

\* {role: "assistant", content}
AssistantMessage(content) ==
    JObj(<<Kid(<<"role">>, JStr(<<"assistant">>)), Kid(<<"content">>, content)>>)

UserMessage == JObj(<<Kid(<<"role">>, JStr(<<"user">>)), Kid(<<"content">>, JStr(<<"a">>))>>)

\* a sequence of values as a JSON array
RECURSIVE Elements(_)
Elements(vals) ==
    IF vals = <<>> THEN <<>> ELSE <<Kid(<<>>, Head(vals))>> \o Elements(Tail(vals))

Array(vals) == JArr(Elements(vals))

\* the argument strings and tool inputs of the requests
ArgumentTexts == { <<"{", "}">>, <<"{", " ", "}">>, <<"x">> }

ToolInputs ==
    { JObj(<<>>), JObj(<<Kid(<<"a">>, JNum(<<"1">>))>>), JStr(<<"x">>), JStr(<<"{", "}">>) }

ResponsesInputs ==
    { JNone, JNull, JStr(<<"a">>), Array(<<>>),
      Array(<<AssistantMessage(JStr(<<"a">>)), FunctionCall(JStr(<<"{", "}">>))>>) }
    \cup { Array(<<FunctionCall(JStr(args))>>) : args \in ArgumentTexts }

JsonObjectFormat ==
    JObj(<<Kid(<<"format">>, JObj(<<Kid(<<"type">>, JStr(<<"json_object">>))>>))>>)

ResponsesBodies ==
    { JObj(<<Kid(<<"model">>, m), Kid(<<"input">>, i), Kid(<<"text">>, f)>>) :
        m \in {JNone, JStr(<<"m">>), JStr(<<" ">>)}, i \in ResponsesInputs,
        f \in {JNone, JsonObjectFormat} }

\* {id: "p", type: "function", function: {name: "f", arguments}}
ChatToolCall(arguments) ==
    JObj(<<Kid(<<"id">>, JStr(<<"p">>)), Kid(<<"type">>, JStr(<<"function">>)),
           Kid(<<"function">>, JObj(<<Kid(<<"name">>, JStr(<<"f">>)),
                                      Kid(<<"arguments">>, JStr(arguments))>>))>>)

ChatMessages ==
    { JNone, Array(<<>>), Array(<<UserMessage>>),
      Array(<<JObj(<<Kid(<<"role">>, JStr(<<"user">>)),
                     Kid(<<"content">>,
                         Array(<<JObj(<<Kid(<<"type">>, JStr(<<"text">>)),
                                        Kid(<<"text">>, JStr(<<"a">>))>>)>>))>>)>>) }
    \cup { Array(<<JObj(<<Kid(<<"role">>, JStr(<<"assistant">>)),
                          Kid(<<"content">>, JStr(<<"a">>)),
                          Kid(<<"tool_calls">>, Array(<<ChatToolCall(args)>>))>>)>>) :
             args \in ArgumentTexts }

ChatBodies ==
    { JObj(<<Kid(<<"model">>, m), Kid(<<"messages">>, ms), Kid(<<"stream">>, st)>>) :
        m \in {JNone, JStr(<<"m">>)}, ms \in ChatMessages,
        st \in {JNone, JTrue, JFalse} }

\* {type: "tool_use", id: "p", name: "f", input}
ToolUse(input) ==
    JObj(<<Kid(<<"type">>, JStr(<<"tool_use">>)), Kid(<<"id">>, JStr(<<"p">>)),
           Kid(<<"name">>, JStr(<<"f">>)), Kid(<<"input">>, input)>>)

TextPart == JObj(<<Kid(<<"type">>, JStr(<<"text">>)), Kid(<<"text">>, JStr(<<"a">>))>>)

AnthropicRequestMessages ==
    { JNone, Array(<<>>), Array(<<UserMessage>>) }
    \cup { Array(<<AssistantMessage(Array(<<TextPart, ToolUse(input)>>))>>) :
             input \in ToolInputs }

MessagesBodies ==
    { JObj(<<Kid(<<"model">>, m), Kid(<<"max_tokens">>, mt), Kid(<<"messages">>, ms),
             Kid(<<"stream">>, st)>>) :
        m \in {JNone, JStr(<<"m">>)}, mt \in {JNone, JNum(<<"1">>)},
        ms \in AnthropicRequestMessages, st \in {JNone, JTrue} }

Requests ==
    { [NoRequest EXCEPT !.endpoint = "/v1/responses", !.xProxyKey = h, !.body = b] :
        h \in ProxyKeyHeaders, b \in ResponsesBodies }
    \cup { [NoRequest EXCEPT !.endpoint = "/v1/chat/completions", !.xProxyKey = h,
                             !.body = b] : h \in ProxyKeyHeaders, b \in ChatBodies }
    \cup { [NoRequest EXCEPT !.endpoint = "/v1/messages", !.xApiKey = h,
                             !.authorization = a, !.body = b] :
             h \in ProxyKeyHeaders, a \in AuthorizationHeaders, b \in MessagesBodies }
    \cup { [NoRequest EXCEPT !.endpoint = "/v1/models"] }

\* the content and the tool calls of the assistant messages of a request
RECURSIVE AssistantText(_)
AssistantText(messages) ==
    IF messages = <<>> THEN <<>>
    ELSE (IF Head(messages).role = <<"assistant">> THEN Head(messages).content ELSE <<>>)
            \o AssistantText(Tail(messages))

RECURSIVE AssistantCalls(_)
AssistantCalls(messages) ==
    IF messages = <<>> THEN <<>>
    ELSE (IF Head(messages).role = <<"assistant">> THEN Head(messages).tool_calls
          ELSE <<>>) \o AssistantCalls(Tail(messages))

\* ToolCall values as the elements of message.tool_calls of an upstream body
RECURSIVE AsJsonCalls(_)
AsJsonCalls(calls) ==
    IF calls = <<>> THEN <<>>
    ELSE <<ToolCall(Head(calls).id, Head(calls).name, Head(calls).arguments)>>
            \o AsJsonCalls(Tail(calls))

\* the completion of an upstream that answers with the assistant turn it was sent
Echo(sent) ==
    [EmptyObj EXCEPT !.message_content = Str(AssistantText(sent.messages)),
                     !.message_tool_calls = ToolCalls(AsJsonCalls(AssistantCalls(sent.messages))),
                     !.finish_reason = Str(<<"stop">>)]

UpstreamStatuses == { 200, 304, 404, 503 }

ContentTypes == { "text/event-stream", "application/json", "" }

UpAnswer(status, contentType, kind, text, json) ==
    [status |-> status, contentType |-> contentType, kind |-> kind, text |-> text,
     json |-> json]

\* the bodies of a 2xx answer: JSON completions (the echo, one whose text holds
\* JSON, an object of another shape), text that is not JSON, an SSE stream
Bodies(sent) ==
    { UpAnswer(200, "", "json", <<>>, j) :
        j \in { Echo(sent), EmptyObj,
                [EmptyObj EXCEPT !.message_content = Str(<<"a", "{", " ", "}">>),
                                 !.usage = 5] } }
    \cup { UpAnswer(200, "", "garbage", <<>>, EmptyObj),
           UpAnswer(200, "", "sse",
                    <<PREFIX, Json(Content(<<"a">>)), NL, PREFIX, DONE, NL>>, EmptyObj) }

\* what the upstream can answer the request `sent` with
Answers(sent) ==
    { UpAnswer(st, "application/json", "garbage", <<>>, EmptyObj) :
        st \in UpstreamStatuses \ {200} }
    \cup { [b EXCEPT !.contentType = ct] : b \in Bodies(sent), ct \in ContentTypes }

\* contentType.includes("text/event-stream")
IsSse(a) == a.contentType = "text/event-stream"

\* the text the assembler reads: a body that is not SSE has no data: line
BodyAsSse(a) == IF a.kind = "sse" THEN a.text ELSE <<COMMENT>>

\* readSSEAndAssembleChatCompletion run to its return on a whole body
AsmFinal(text, requestedModel) ==
    LET s == AssembleLines([buffer |-> text, assistantText |-> <<>>,
                            model |-> requestedModel, usage |-> 0, toolCalls |-> <<>>,
                            returned |-> FALSE, result |-> NoResult])
    IN  IF s.returned THEN s.result ELSE Return(s, FilterBoolean(s.toolCalls)).result

\* isSse ? await readSSEAndAssembleChatCompletion(...) : parse of await json()
Assembled(a, requestedModel) ==
    IF IsSse(a) THEN AsmFinal(BodyAsSse(a), requestedModel)
    ELSE parseUpstreamChatCompletionJson(a.json, requestedModel)

\* the error answer of an UpstreamProxyError
UpstreamFailed(a) ==
    Answer(toContentfulStatus(UpstreamProxyErrorStatus(a.status)), "error")

\* POST /v1/responses from the answer of the upstream on
ResponsesAnswered ==
    /\ pc = "fetching"
    /\ request.endpoint = "/v1/responses"
    /\ \E a \in Answers(chatReq) :
          /\ upResp' = a
          /\ IF ~Ok(a.status) THEN UpstreamFailed(a) /\ UNCHANGED <<reply, result, returned>>
             ELSE IF ~IsSse(a) /\ a.kind # "json"
             THEN Answer(500, "error") /\ UNCHANGED <<reply, result, returned>>
             ELSE /\ result' = Assembled(a, chatReq.model)
                  /\ returned' = TRUE
                  /\ reply' = ResponsesReply(Assembled(a, chatReq.model), request.body,
                                             chatReq.model)
                  /\ Answer(200, "json")
    /\ UNCHANGED <<config, request, chatReq, stream>>
    /\ UNCHANGED <<asmBuffer, assistantText, model, usage, toolCalls>>
    /\ UNCHANGED <<projVars, upVars>>

\* POST /v1/chat/completions from the answer of the upstream on
ChatAnswered ==
    /\ pc = "fetching"
    /\ request.endpoint = "/v1/chat/completions"
    /\ \E a \in Answers(chatReq) :
          /\ upResp' = a
          /\ IF ~Ok(a.status) \/ (~IsSse(a) /\ a.kind # "json")
             THEN Answer(500, "error") /\ UNCHANGED <<reply, result, returned>>
             ELSE /\ result' = Assembled(a, chatReq.model)
                  /\ returned' = TRUE
                  /\ reply' = buildChatCompletionResponse(
                                  OrElse(Assembled(a, chatReq.model).model, chatReq.model),
                                  OrElse(Assembled(a, chatReq.model).assistantText, <<>>))
                  /\ Answer(200, "json")
    /\ UNCHANGED <<config, request, chatReq, stream>>
    /\ UNCHANGED <<asmBuffer, assistantText, model, usage, toolCalls>>
    /\ UNCHANGED <<projVars, upVars>>

\* POST /v1/messages from the answer of the upstream on
MessagesAnswered ==
    /\ pc = "fetching"
    /\ request.endpoint = "/v1/messages"
    /\ \E a \in Answers(chatReq) :
          /\ upResp' = a
          /\ IF ~Ok(a.status) THEN UpstreamFailed(a) /\ UNCHANGED <<response, upJson>>
             ELSE IF chatReq.stream THEN Answer(200, "stream") /\ UNCHANGED <<response, upJson>>
             ELSE IF a.kind # "json" THEN Answer(500, "error") /\ UNCHANGED <<response, upJson>>
             ELSE /\ response' = openAIToAnthropicResponse(a.json, chatReq.model)
                  /\ upJson' = a.json
                  /\ Answer(200, "json")
    /\ UNCHANGED <<config, request, chatReq, stream, reply>>
    /\ UNCHANGED <<buffer, sentMessageStart, contentBlockStarted, contentBlockStopped,
                   currentToolCallIndex, toolCallsInProgress, closedToolCallIndices,
                   out, closed, seen, finishSeen, closeAt>>
    /\ UNCHANGED <<asmVars, upVars>>

\* GET /v1/models from the answer of the upstream on
ModelsAnswered ==
    /\ pc = "fetching"
    /\ request.endpoint = "/v1/models"
    /\ \E a \in Answers(chatReq) :
          /\ upResp' = a
          /\ IF ~Ok(a.status) THEN UpstreamFailed(a)
             ELSE IF a.kind # "json" THEN Answer(500, "error")
             ELSE Answer(200, "json")
    /\ UNCHANGED <<config, request, chatReq, stream, reply>>
    /\ UNCHANGED <<projVars, asmVars, upVars>>

NextHttp ==
    \/ PostResponses \/ PostChat \/ PostMessages \/ GetModels
    \/ ResponsesAnswered \/ ChatAnswered \/ MessagesAnswered \/ ModelsAnswered

\* a request has arrived at a server with or without PROXY_KEY
InitHttp ==
    /\ InitStreams
    /\ ~stream
    /\ config \in Configs
    /\ request \in Requests
    /\ pc = "received"
    /\ chatReq = NoChatReq
    /\ upResp = NoUpResp
    /\ http = NoHttp

SpecHttp == InitHttp /\ [][NextHttp]_vars

(* ------------- a request and its answer in the same dialect ----------- *)

\* a tool call as a dialect writes it: arguments is the JSON value of the
\* arguments member (function_call, tool_calls[]) or of the input member (tool_use)
CallOf(id, name, arguments) == [id |-> id, name |-> name, arguments |-> arguments]

\* the tool calls among the tool_calls of a message or the blocks of a content
RECURSIVE InnerCalls(_, _)
InnerCalls(endpoint, kids) ==
    IF kids = <<>> THEN <<>>
    ELSE LET n == Head(kids).val
         IN  (IF endpoint = "/v1/chat/completions"
              THEN <<CallOf(Get(n, "id").s, Get(Get(n, "function"), "name").s,
                            Get(Get(n, "function"), "arguments"))>>
              ELSE IF Get(n, "type") = JStr(<<"tool_use">>)
              THEN <<CallOf(Get(n, "id").s, Get(n, "name").s, Get(n, "input"))>>
              ELSE <<>>) \o InnerCalls(endpoint, Tail(kids))

\* the tool calls a request body carries: kids are the items of input or the
\* messages
RECURSIVE RequestCalls(_, _)
RequestCalls(endpoint, kids) ==
    IF kids = <<>> THEN <<>>
    ELSE LET n == Head(kids).val
         IN  (IF endpoint = "/v1/responses"
              THEN IF Get(n, "type") = JStr(<<"function_call">>)
                   THEN <<CallOf(Get(n, "call_id").s, Get(n, "name").s,
                                 Get(n, "arguments"))>>
                   ELSE <<>>
              ELSE IF endpoint = "/v1/chat/completions"
              THEN InnerCalls(endpoint, Get(n, "tool_calls").kids)
              ELSE InnerCalls(endpoint, Get(n, "content").kids))
             \o RequestCalls(endpoint, Tail(kids))

\* the text of the text blocks of a content
RECURSIVE BlocksText(_)
BlocksText(kids) ==
    IF kids = <<>> THEN <<>>
    ELSE (IF Get(Head(kids).val, "type") = JStr(<<"text">>)
          THEN Get(Head(kids).val, "text").s ELSE <<>>) \o BlocksText(Tail(kids))

\* the assistant text a request body carries
RECURSIVE RequestText(_)
RequestText(kids) ==
    IF kids = <<>> THEN <<>>
    ELSE LET n == Head(kids).val
         IN  (IF Get(n, "role") # JStr(<<"assistant">>) THEN <<>>
              ELSE IF Get(n, "content").t = "str" THEN Get(n, "content").s
              ELSE BlocksText(Get(n, "content").kids)) \o RequestText(Tail(kids))

\* the items or messages of the request
RequestItems ==
    IF request.endpoint = "/v1/responses" THEN Get(request.body, "input").kids
    ELSE Get(request.body, "messages").kids

\* the tool calls of the canonical request sent upstream
RECURSIVE SentCalls(_)
SentCalls(calls) ==
    IF calls = <<>> THEN <<>>
    ELSE <<CallOf(Head(calls).id, Head(calls).name, JStr(Head(calls).arguments))>>
            \o SentCalls(Tail(calls))

\* the tool calls and the text of an Anthropic content
RECURSIVE ContentCalls(_)
ContentCalls(blocks) ==
    IF blocks = <<>> THEN <<>>
    ELSE (IF Head(blocks).type = "tool_use"
          THEN <<CallOf(Head(blocks).id, Head(blocks).name, Head(blocks).input)>>
          ELSE <<>>) \o ContentCalls(Tail(blocks))

RECURSIVE ContentText(_)
ContentText(blocks) ==
    IF blocks = <<>> THEN <<>>
    ELSE (IF Head(blocks).type = "text" THEN Head(blocks).text ELSE <<>>)
            \o ContentText(Tail(blocks))

\* the function_call items of a Responses output
RECURSIVE OutputCalls(_)
OutputCalls(items) ==
    IF items = <<>> THEN <<>>
    ELSE (IF Head(items).type = "function_call"
          THEN <<CallOf(Head(items).call_id, Head(items).name,
                        JStr(Head(items).arguments))>>
          ELSE <<>>) \o OutputCalls(Tail(items))

\* the tool calls and the text of the answer, read in the dialect of the endpoint
AnswerCalls ==
    IF request.endpoint = "/v1/responses" THEN OutputCalls(reply.output)
    ELSE IF request.endpoint = "/v1/chat/completions" THEN SentCalls(reply.tool_calls)
    ELSE ContentCalls(response.content)

AnswerText ==
    IF request.endpoint = "/v1/responses" THEN reply.output_text
    ELSE IF request.endpoint = "/v1/chat/completions" THEN reply.content
    ELSE ContentText(response.content)

\* a tool call was sent upstream with the id and name it came with, and with
\* its argument string when the dialect writes the arguments as a string
SameCall(received, sent) ==
    /\ sent.id = received.id
    /\ sent.name = received.name
    /\ received.arguments.t = "str" => sent.arguments = received.arguments

\* the upstream answered 200 with the assistant turn of the request, as JSON
Echoed ==
    /\ pc = "done"
    /\ http = [status |-> 200, kind |-> "json"]
    /\ ~IsSse(upResp)
    /\ upResp.json = Echo(chatReq)

\* C14: the request sent upstream carries the assistant text and the tool
\* calls (id, name, argument string) of the request body, and when the upstream
\* answers with that assistant turn, the response in the dialect of the request
\* carries the same text and the same tool calls as the request body did
C14_RoundTripPreserves ==
    /\ pc # "received" /\ chatReq.url = "/v1/chat/completions" =>
          LET received == RequestCalls(request.endpoint, RequestItems)
              sent == SentCalls(AssistantCalls(chatReq.messages))
          IN  /\ AssistantText(chatReq.messages) = RequestText(RequestItems)
              /\ Len(sent) = Len(received)
              /\ \A i \in 1..Len(sent) : SameCall(received[i], sent[i])
    /\ Echoed =>
          /\ AnswerText = RequestText(RequestItems)
          /\ AnswerCalls = RequestCalls(request.endpoint, RequestItems)

(* ------------------------- the echo service --------------------------- *)

\* formatEchoContent(payload)
formatEchoContent(payload) ==
    IF Nullish(payload) THEN <<>>
    ELSE IF payload.t = "str" THEN payload.s
    ELSE Stringify(payload)

\* Math.max(1, Math.ceil(text.length / 4)); an element of a text is one character
estimateTokens(text) ==
    IF Len(text) <= 4 THEN 1 ELSE (Len(text) + 3) \div 4

\* buildResponseOutput(idPrefix, model, messageContent): usage is its output_tokens
buildResponseOutput(requestedModel, messageContent) ==
    [NoReply EXCEPT
        !.kind = "responses", !.model = requestedModel,
        !.output = <<OutputItem("message",
                                <<[type |-> "output_text", text |-> messageContent]>>,
                                <<>>, <<>>, <<>>)>>,
        !.usage = estimateTokens(messageContent), !.output_text = messageContent]

\* the requests sent to the echo service
EchoInputs ==
    { JNone, JNull, JStr(<<>>), JStr(<<"a">>), JStr(<<"a", "b", "c", "d", "e">>),
      Array(<<>>), Array(<<JStr(<<"a">>)>>) }

EchoRequests ==
    { [NoRequest EXCEPT !.endpoint = "/v1/responses", !.xProxyKey = h,
                        !.body = JObj(<<Kid(<<"model">>, m), Kid(<<"input">>, i)>>)] :
        h \in ProxyKeyHeaders, m \in {JNone, JStr(<<"m">>), JStr(<<" ">>)},
        i \in EchoInputs }

\* POST /v1/responses served by EchoLlmService.createResponse
PostResponsesEcho ==
    /\ pc = "received"
    /\ request.endpoint = "/v1/responses"
    /\ LET body == request.body
           trimmed == IF Get(body, "model").t = "str" THEN Trim(Get(body, "model").s)
                      ELSE <<>>
       IN  IF config.proxyKey # <<>> /\ HeaderOrEmpty(request.xProxyKey) # config.proxyKey
           THEN Answer(401, "error") /\ UNCHANGED reply
           ELSE IF trimmed = <<>> THEN Answer(400, "error") /\ UNCHANGED reply
           ELSE IF Nullish(Get(body, "input")) THEN Answer(400, "error") /\ UNCHANGED reply
           ELSE /\ reply' = buildResponseOutput(ModelOf(body),
                                                formatEchoContent(Get(body, "input")))
                /\ Answer(200, "json")
    /\ UNCHANGED <<config, request, chatReq, upResp, stream>>
    /\ UNCHANGED <<projVars, asmVars, upVars>>

NextEcho == PostResponsesEcho

InitEcho ==
    /\ InitStreams
    /\ ~stream
    /\ config \in Configs
    /\ request \in EchoRequests
    /\ pc = "received"
    /\ chatReq = NoChatReq
    /\ upResp = NoUpResp
    /\ http = NoHttp

SpecEcho == InitEcho /\ [][NextEcho]_vars

\* the message item of a Responses body
MessageItem == reply.output[1]

\* C15: a Responses output is one message item, then one function_call item
\* per assembled tool call in the same order; the content of the message item
\* is empty iff the assistant text is, and when it is not empty output_text is
\* the text of its first part
C15_ResponsesOutputShape ==
    reply.kind = "responses" =>
        /\ Len(reply.output) = 1 + Len(result.toolCalls)
        /\ MessageItem.type = "message"
        /\ \A k \in 1..Len(result.toolCalls) :
              reply.output[k + 1] =
                  OutputItem("function_call", <<>>, result.toolCalls[k].id,
                             result.toolCalls[k].name, result.toolCalls[k].arguments)
        /\ MessageItem.content = <<>> <=> reply.output_text = <<>>
        /\ MessageItem.content # <<>> => reply.output_text = MessageItem.content[1].text

(* --------------------- JSON recovery on a response -------------------- *)

\* an assistant text is made of at most MaxPieces of these pieces
MaxPieces == 3

RecoveryPieces ==
    { <<"a">>, <<" ">>, <<"{">>, <<"}">>, <<"[">>, <<"]">>, <<QUOTE>>, <<"{", "}">>,
      <<"[", "1", "]">>, <<"{", QUOTE, "a", QUOTE, ":", "1", "}">> }

RECURSIVE TextsOf(_)
TextsOf(n) ==
    IF n = 0 THEN { <<>> }
    ELSE TextsOf(n - 1) \cup { t \o p : t \in TextsOf(n - 1), p \in RecoveryPieces }

\* createResponse reads an upstream answer that is not SSE: await json(), then
\* parseUpstreamChatCompletionJson
ReadJsonBody ==
    /\ ~returned
    /\ \E t \in TextsOf(MaxPieces) :
          result' = parseUpstreamChatCompletionJson(
                        [EmptyObj EXCEPT !.message_content = Str(t)],
                        ModelOf(request.body))
    /\ returned' = TRUE
    /\ UNCHANGED <<asmBuffer, assistantText, model, usage, toolCalls>>
    /\ UNCHANGED <<projVars, upVars, edgeVars>>
    /\ UNCHANGED <<reply, stream>>

NextJson == ReadJsonBody \/ RespondResponses

\* a Responses request with or without text.format.type json_object
InitJson ==
    /\ InitStreams
    /\ ~stream
    /\ config = [proxyKey |-> <<>>, customLlmUrl |-> <<Origin>>]
    /\ request \in { [NoRequest EXCEPT !.endpoint = "/v1/responses",
                          !.body = JObj(<<Kid(<<"model">>, JStr(<<"m">>)),
                                          Kid(<<"input">>, JStr(<<"a">>)),
                                          Kid(<<"text">>, f)>>)] :
                       f \in {JNone, JsonObjectFormat} }
    /\ pc = "idle"
    /\ chatReq = NoChatReq
    /\ upResp = NoUpResp
    /\ http = NoHttp

SpecJson == InitJson /\ [][NextJson]_vars

\* the caller asked for text.format.type json_object
AskedJsonObject == FormatOf(request.body) = JStr(<<"json_object">>)

\* JSON recovery on the assembled assistant text
Recovered == extractProbablyJSON(result.assistantText)

\* the value is written somewhere in the text
WrittenIn(val, text) ==
    \E i \in 1..Len(text) : \E j \in i..Len(text) :
        /\ JSONparse(SubSeq(text, i, j)).ok
        /\ JSONparse(SubSeq(text, i, j)).val = val

\* C16: when json_object was asked for and recovery succeeds on the assembled
\* text, output_text and the text of the first content part are the canonical
\* stringification of the recovered value (a value written in the text, which
\* the stringification parses back to); otherwise the text is passed unchanged
C16_JsonObjectRecovery ==
    reply.kind = "responses" =>
        IF AskedJsonObject /\ Recovered.ok
        THEN /\ reply.output_text = Stringify(Recovered.val)
             /\ MessageItem.content # <<>>
             /\ MessageItem.content[1].text = Stringify(Recovered.val)
             /\ JSONparse(reply.output_text).ok
             /\ JSONparse(reply.output_text).val = Recovered.val
             /\ WrittenIn(Recovered.val, result.assistantText)
        ELSE /\ reply.output_text = result.assistantText
             /\ result.assistantText # <<>> =>
                    MessageItem.content[1].text = result.assistantText

\* recovery rewrote a text that holds a JSON value among other characters
C16_Witness ==
    /\ reply.kind = "responses"
    /\ AskedJsonObject
    /\ Recovered.ok
    /\ reply.output_text # result.assistantText
    /\ reply.output_text = <<"{", QUOTE, "a", QUOTE, ":", "1", "}">>

(* ------------------------- answers of the edge ------------------------ *)

PostEndpoints == { "/v1/responses", "/v1/chat/completions", "/v1/messages" }

\* the member is absent from the body or null
Missing(key) == Nullish(Get(request.body, key))

MissingModel == request.endpoint \in PostEndpoints /\ Missing("model")

MissingMessages ==
    /\ request.endpoint \in { "/v1/chat/completions", "/v1/messages" }
    /\ Missing("messages") \/ Get(request.body, "messages") = Array(<<>>)

\* no input, or an input that produces no messages
MissingInput ==
    /\ request.endpoint = "/v1/responses"
    /\ Missing("input") \/ inputToMessages(Get(request.body, "input")) = <<>>

MissingMaxTokens == request.endpoint = "/v1/messages" /\ Missing("max_tokens")

ValidationFailure == MissingModel \/ MissingMessages \/ MissingInput \/ MissingMaxTokens

\* the handler has gone past authentication
Admitted == pc = "fetching" \/ (pc = "done" /\ http.status # 401)

\* nothing was sent upstream
NotContacted == chatReq = NoChatReq /\ upResp = NoUpResp

\* C17: a request that fails validation (missing model; missing or empty
\* messages; missing input or input producing no messages; missing max_tokens)
\* is answered 400 and nothing is sent upstream
C17_ValidationAnswers400 ==
    ValidationFailure /\ Admitted =>
        /\ pc = "done"
        /\ http.status = 400
        /\ NotContacted

\* the key the deployment is configured with, as a header value
KeyHeader == Str(config.proxyKey)

\* what the request must present: x-proxy-key on /v1/responses and
\* /v1/chat/completions; x-api-key or a Bearer token on /v1/messages
PresentsKey ==
    IF request.endpoint = "/v1/messages"
    THEN \/ request.xApiKey = KeyHeader
         \/ request.authorization = Str(<<"Bearer", " ">> \o config.proxyKey)
    ELSE request.xProxyKey = KeyHeader

\* C18: with PROXY_KEY configured, a request to one of the three POST endpoints
\* goes past authentication iff it presents the key (either header suffices on
\* /v1/messages); every other request is answered 401, whatever its body, and
\* nothing is sent upstream
C18_KeyRequired ==
    config.proxyKey # <<>> /\ request.endpoint \in PostEndpoints /\ pc # "received" =>
        /\ Admitted <=> PresentsKey
        /\ ~PresentsKey => pc = "done" /\ http.status = 401 /\ NotContacted

\* the upstream has answered with a status that is not 2xx
UpstreamRefused == pc = "done" /\ upResp # NoUpResp /\ ~Ok(upResp.status)

\* C19: when the upstream answers with a status that is not 2xx, the endpoint
\* answers with an error whose status is the upstream status if that is in
\* 400..599 and 502 otherwise
C19_UpstreamStatusKept ==
    UpstreamRefused =>
        /\ http.kind = "error"
        /\ http.status = IF upResp.status \in 400..599 THEN upResp.status ELSE 502

\* the upstream answered 2xx to a Chat Completions request, and the answer
\* has not the shape that was asked for: no text/event-stream content type
\* although stream was true, or a body that is neither SSE nor JSON
WrongShape ==
    /\ pc = "done"
    /\ request.endpoint \in PostEndpoints
    /\ upResp # NoUpResp
    /\ Ok(upResp.status)
    /\ (chatReq.stream /\ ~IsSse(upResp)) \/ upResp.kind = "garbage"

\* C20: a 2xx upstream answer of the wrong shape is answered with 502; no
\* body is built from it and it is not piped as an Anthropic event stream
C20_WrongShapeIs502 ==
    WrongShape =>
        /\ http = [status |-> 502, kind |-> "error"]
        /\ reply = NoReply
        /\ response = NoResponse

\* a Chat Completions request was sent upstream
SentUpstream == pc # "received" /\ chatReq.url = "/v1/chat/completions"

\* C21: every request sent to the upstream chat-completions endpoint has
\* stream = true, whatever the endpoint and whatever stream the caller gave
C21_UpstreamAlwaysStreams ==
    SentUpstream => chatReq.stream

\* CUSTOM_LLM_URL is missing or is not a URL
NoBaseUrl == config.customLlmUrl = <<>> \/ ~ensureUrl(config.customLlmUrl).ok

\* C22: without a usable base URL nothing is sent upstream by any endpoint;
\* in every configuration a request is sent upstream at most once per inbound
\* request, and nothing is sent again after the upstream has answered
C22_NoUpstreamWithoutUrlNoRetry ==
    [][ /\ NoBaseUrl' => NotContacted'
        /\ chatReq' # chatReq => chatReq = NoChatReq /\ upResp = NoUpResp
        /\ upResp' # upResp => upResp = NoUpResp /\ pc' = "done"
        /\ pc' = "fetching" => pc = "received" ]_vars

\* a request was served to its end without a usable base URL
C22_Witness ==
    /\ NoBaseUrl
    /\ pc = "done"
    /\ Admitted
    /\ request.endpoint = "/v1/messages"

\* the caller of POST /v1/chat/completions asked for a stream and the upstream
\* answered with one
ChatStreamAsked ==
    /\ request.endpoint = "/v1/chat/completions"
    /\ Get(request.body, "stream") = JTrue
    /\ pc = "done"
    /\ Ok(upResp.status)
    /\ IsSse(upResp)
    /\ upResp.kind = "sse"

\* C23: when the caller of POST /v1/chat/completions sets stream: true, the
\* answer is a stream of the upstream data events (passed on as they arrive,
\* only their id rewritten) and no buffered body is built
C23_ChatStreamPassedThrough ==
    ChatStreamAsked =>
        /\ http = [status |-> 200, kind |-> "stream"]
        /\ reply = NoReply

\* the consumer cancels while the upstream stream is still open
CancelStep == ~cancelled /\ cancelled' /\ ~upDone

\* C24: when the consumer cancels the returned stream while the upstream is
\* still open, the upstream reader is cancelled (and so the body released),
\* and after the cancellation nothing more is read from the upstream
C24_CancelReachesUpstream ==
    [][ /\ CancelStep => upstreamReader' = "cancelled"
        /\ cancelled => UNCHANGED <<upLines, upPartial, upDone, out>> ]_vars

(* ------------------------------- C25 ---------------------------------- *)

\* the first element of tcs that carries upstream index i
RECURSIVE FirstOfIndex(_, _)
FirstOfIndex(tcs, i) ==
    IF UpstreamIndex(Head(tcs)) = i THEN Head(tcs) ELSE FirstOfIndex(Tail(tcs), i)

\* the tool call accumulated from the read lines for upstream index i: id and
\* name of its first fragment, all its argument fragments in order
AccumulatedCall(i) ==
    LET tcs == DeltaToolCalls(upEvents)
    IN  Slot(StringOrEmpty(FirstOfIndex(tcs, i).id),
             StringOrEmpty(FirstOfIndex(tcs, i).name), ArgumentsOfIndex(tcs, i))

NoEmptySlot == \A k \in 1..Len(result.toolCalls) : result.toolCalls[k].present

\* C25: the assembled toolCalls has no empty slot and is indexed by the
\* upstream index: array position i holds the call accumulated for index i
C25_IndexedByUpstreamIndex ==
    (returned /\ ~Adopted) =>
        /\ NoEmptySlot
        /\ \A i \in ReadIndices :
              /\ i + 1 <= Len(result.toolCalls)
              /\ result.toolCalls[i + 1] = AccumulatedCall(i)

\* what filter(Boolean) gives: no empty slot, and the calls of the upstream
\* indices that were used, in ascending order of index (position i for index
\* i only when no smaller index is unused)
C25_DenseInIndexOrder ==
    (returned /\ ~Adopted) =>
        /\ NoEmptySlot
        /\ Len(result.toolCalls) = Cardinality(ReadIndices)
        /\ \A k \in 1..Len(result.toolCalls) :
              result.toolCalls[k] = AccumulatedCall(KthIndex(ReadIndices, k))

(* ------------------------ lines that are skipped ---------------------- *)

\* a line without the data: prefix, a data: line with an empty payload and a
\* data: line whose payload is not JSON
IgnoredLines == { <<COMMENT, NL>>, <<NL>>, <<PREFIX, NL>>, <<PREFIX, BAD, NL>> }

\* a data line with a JSON payload
ContentLine == <<PREFIX, Json(Content(<<"a">>)), NL>>

IsPrefixOf(p, text) == Len(p) <= Len(text) /\ SubSeq(text, 1, Len(p)) = p

\* the assembler once `text` is what its buffer holds
AssembleFrom(text) == AssembleLines([AsmState EXCEPT !.buffer = text])

\* the projector once `text` is what its buffer holds
ProcessFrom(text) == ProcessLines([ProjState EXCEPT !.buffer = text])

\* C26: in the assembler and in the projector alike, completing a line that
\* has no data: prefix, an empty payload or a payload that is not JSON changes
\* nothing but the buffer (no accumulated field, no event sent, no return,
\* no close), and the line after it is handled as if it came first
C26_SkippedLinesChangeNothing ==
    \A l \in IgnoredLines :
        /\ (~stream /\ ~returned /\ IsPrefixOf(asmBuffer, l)) =>
              /\ AssembleFrom(l) = [AsmState EXCEPT !.buffer = <<>>]
              /\ AssembleFrom(l \o ContentLine) = AssembleFrom(ContentLine)
        /\ (stream /\ ~closed /\ IsPrefixOf(buffer, l)) =>
              /\ ProcessFrom(l) = [ProjState EXCEPT !.buffer = <<>>]
              /\ ProcessFrom(l \o ContentLine) = ProcessFrom(ContentLine)

\* the assembler has read two whole lines, one of them skipped, and goes on
C26_Witness ==
    /\ ~stream
    /\ ~returned
    /\ upLines = 2
    /\ upPartial = <<>>
    /\ upEvents = <<Content(<<"a">>)>>
    /\ assistantText = <<"a">>

(* ------------- requests with tools, tool_choice, instructions --------- *)

\* {type: "function", name: "f", description: "d"}, the Responses shape
FlatTool ==
    JObj(<<Kid(<<"type">>, JStr(<<"function">>)), Kid(<<"name">>, JStr(<<"f">>)),
           Kid(<<"description">>, JStr(<<"d">>))>>)

\* {type: "function", function: {name: "f"}}, the Chat Completions shape
NestedTool == FunctionTool(JObj(<<Kid(<<"name">>, JStr(<<"f">>))>>))

WebSearchTool == JObj(<<Kid(<<"type">>, JStr(<<"web_search">>))>>)

ToolLists ==
    { JNone, Array(<<NestedTool>>), Array(<<WebSearchTool, FlatTool>>),
      Array(<<WebSearchTool>>) }

\* {type: "function", name: "f"}
FlatChoice ==
    JObj(<<Kid(<<"type">>, JStr(<<"function">>)), Kid(<<"name">>, JStr(<<"f">>))>>)

ToolChoices == { JNone, JStr(<<"auto">>), FlatChoice, NestedTool }

\* {name: "f", input_schema: {}}
AnthropicTool ==
    JObj(<<Kid(<<"name">>, JStr(<<"f">>)), Kid(<<"input_schema">>, JObj(<<>>))>>)

AnthropicToolChoices ==
    { JNone, JObj(<<Kid(<<"type">>, JStr(<<"auto">>))>>),
      JObj(<<Kid(<<"type">>, JStr(<<"any">>))>>),
      JObj(<<Kid(<<"type">>, JStr(<<"tool">>)), Kid(<<"name">>, JStr(<<"f">>))>>) }

\* {type: "function_call_output", call_id: "p", output: "o"}
FunctionCallOutput ==
    JObj(<<Kid(<<"type">>, JStr(<<"function_call_output">>)),
           Kid(<<"call_id">>, JStr(<<"p">>)), Kid(<<"output">>, JStr(<<"o">>))>>)

ItemInputs ==
    { JStr(<<"a">>),
      Array(<<UserMessage, FunctionCall(JStr(<<"{", "}">>)), FunctionCallOutput>>),
      Array(<<FunctionCall(JNone), FunctionCallOutput, UserMessage>>),
      Array(<<FunctionCallOutput>>) }

Instructions == { JNone, JStr(<<>>), JStr(<<"s">>) }

ToolRequests ==
    { [NoRequest EXCEPT !.endpoint = "/v1/responses",
                        !.body = JObj(<<Kid(<<"model">>, JStr(<<"m">>)),
                                        Kid(<<"input">>, i), Kid(<<"instructions">>, ins),
                                        Kid(<<"tools">>, ts),
                                        Kid(<<"tool_choice">>, tc)>>)] :
        i \in ItemInputs, ins \in Instructions, ts \in ToolLists, tc \in ToolChoices }
    \cup { [NoRequest EXCEPT !.endpoint = "/v1/chat/completions",
                             !.body = JObj(<<Kid(<<"model">>, JStr(<<"m">>)),
                                             Kid(<<"messages">>, Array(<<UserMessage>>)),
                                             Kid(<<"tools">>, ts),
                                             Kid(<<"tool_choice">>, tc)>>)] :
             ts \in ToolLists, tc \in ToolChoices }
    \cup { [NoRequest EXCEPT !.endpoint = "/v1/messages",
                             !.body = JObj(<<Kid(<<"model">>, JStr(<<"m">>)),
                                             Kid(<<"max_tokens">>, JNum(<<"1">>)),
                                             Kid(<<"messages">>, Array(<<UserMessage>>)),
                                             Kid(<<"tools">>, ts),
                                             Kid(<<"tool_choice">>, tc)>>)] :
             ts \in {JNone, Array(<<AnthropicTool>>)}, tc \in AnthropicToolChoices }
    \cup { [NoRequest EXCEPT !.endpoint = "/v1/models"] }

\* such a request has arrived at a server without PROXY_KEY
InitTools ==
    /\ InitStreams
    /\ ~stream
    /\ config = [proxyKey |-> <<>>, customLlmUrl |-> <<Origin>>]
    /\ request \in ToolRequests
    /\ pc = "received"
    /\ chatReq = NoChatReq
    /\ upResp = NoUpResp
    /\ http = NoHttp

SpecTools == InitTools /\ [][NextHttp]_vars

\* the tools of the request sent upstream
ToolsSent ==
    IF chatReq.tools.t = "arr"
    THEN { chatReq.tools.kids[i].val : i \in 1..Len(chatReq.tools.kids) }
    ELSE {}

\* a tool_choice of the shape {type: "function", name: X} with no function
IsFlatChoice(c) ==
    /\ Get(c, "type") = JStr(<<"function">>)
    /\ Get(c, "name").t = "str"
    /\ ~IsObjectValue(Get(c, "function"))

\* C27: on every endpoint the request sent upstream holds only tools of type
\* "function" and no tool_choice of the shape {type: "function", name: X};
\* /v1/chat/completions sends what normalizeTools and normalizeToolChoice give
\* for the caller's tools and tool_choice, as /v1/responses does
C27_OnlyFunctionToolsUpstream ==
    SentUpstream =>
        /\ \A tool \in ToolsSent : Get(tool, "type") = JStr(<<"function">>)
        /\ ~IsFlatChoice(chatReq.tool_choice)
        /\ request.endpoint \in {"/v1/responses", "/v1/chat/completions"} =>
              /\ chatReq.tools = normalizeTools(Get(request.body, "tools"))
              /\ chatReq.tool_choice
                     = normalizeToolChoice(Get(request.body, "tool_choice"))

\* the same where the request did not come in on /v1/chat/completions
C27_NormalizedElsewhere ==
    request.endpoint # "/v1/chat/completions" => C27_OnlyFunctionToolsUpstream

(* ------------------ the messages of a Responses request --------------- *)

\* the items of the input array of the request
InputItems == Get(request.body, "input").kids

\* request.instructions, taken as `if (request.instructions)` takes it
HasInstructions == JTruthy(Get(request.body, "instructions"))

\* a /v1/responses request whose input is an array was sent upstream
ItemsSent ==
    /\ SentUpstream
    /\ request.endpoint = "/v1/responses"
    /\ Get(request.body, "input").t = "arr"

\* what the claim says the message for `item` is
MessageIsFor(msg, item) ==
    LET type == Get(item, "type")
    IN  /\ type = JStr(<<"function_call">>) =>
              /\ msg.role = <<"assistant">>
              /\ msg.content = <<>>
              /\ Len(msg.tool_calls) = 1
              /\ msg.tool_calls[1].id = Get(item, "call_id").s
              /\ msg.tool_calls[1].name = Get(item, "name").s
              /\ msg.tool_calls[1].arguments
                     = (IF Get(item, "arguments").t = "str"
                        THEN Get(item, "arguments").s ELSE <<>>)
        /\ type = JStr(<<"function_call_output">>) =>
              /\ msg.role = <<"tool">>
              /\ msg.tool_call_id = Get(item, "call_id").s
              /\ msg.tool_calls = <<>>
        /\ Nullish(type) =>
              /\ msg.role = Get(item, "role").s
              /\ msg.content = Get(item, "content").s
              /\ msg.tool_calls = <<>>

RecoveryText == Trim(result.assistantText)

\* JSON.parse takes the whole text
DirectlyParseable == RecoveryText # <<>> /\ JSONparse(RecoveryText).ok

\* the positions of "{" and "[" in the text
Openers == { i \in 1..Len(RecoveryText) : RecoveryText[i] \in {"{", "["} }

Earliest(positions) == CHOOSE i \in positions : \A j \in positions : i <= j

CloserOf(open) == IF open = "{" THEN "}" ELSE "]"

\* occurrences of `ch` from position `from` up to position `to`
CountOf(ch, from, to) == Cardinality({ i \in from..to : RecoveryText[i] = ch })

\* the positions from `start` on at which as many closers as openers of the
\* kind found at `start` have been read, every character counted as written
Balanced(start) ==
    { i \in start..Len(RecoveryText) :
        CountOf(RecoveryText[start], start, i)
            = CountOf(CloserOf(RecoveryText[start]), start, i) }

\* C29: on a text that JSON.parse does not take whole, the recovery gives the
\* value of one slice, from the earliest "{" or "[" to the first position that
\* balances that opener with its closer, when that slice parses; it gives null
\* when the slice does not parse, when no position balances the opener and
\* when the text has no opener, whatever a later slice would parse to
C29_OneCandidate ==
    (returned /\ ~DirectlyParseable) =>
        IF Openers = {} THEN ~Recovered.ok
        ELSE LET start == Earliest(Openers)
             IN  IF Balanced(start) = {} THEN ~Recovered.ok
                 ELSE LET candidate == SubSeq(RecoveryText, start,
                                              Earliest(Balanced(start)))
                      IN  IF JSONparse(candidate).ok
                          THEN /\ Recovered.ok
                               /\ Recovered.val = JSONparse(candidate).val
                          ELSE ~Recovered.ok

\* the candidate {[1]} does not parse and the recovery gives null, though the
\* slice [1] inside it parses
C29_Witness ==
    /\ returned
    /\ result.assistantText = <<"{", "[", "1", "]", "}">>
    /\ ~DirectlyParseable
    /\ JSONparse(<<"[", "1", "]">>).ok
    /\ ~Recovered.ok

(* ----------------------- how the bytes are split ---------------------- *)

DataLine(e) == <<PREFIX, Json(e), NL>>

\* the lines of an upstream body: text, a tool call, a finish, [DONE], a
\* payload that is not JSON, no payload, a comment
BodyLines ==
    { ContentLine, DataLine(ToolDelta(<<FirstTC(0)>>)), DataLine(Finish(Delta, "stop")),
      <<PREFIX, DONE, NL>>, <<PREFIX, BAD, NL>>, <<PREFIX, NL>>, <<COMMENT, NL>> }

\* bodies of up to n lines
RECURSIVE LinesOf(_)
LinesOf(n) ==
    IF n = 0 THEN { <<>> }
    ELSE LinesOf(n - 1) \cup { t \o l : t \in LinesOf(n - 1), l \in BodyLines }

\* the same with and without a last line that no line feed ends
BodyTexts ==
    { t \o tail : t \in LinesOf(MaxLines), tail \in { <<>>, <<PREFIX, Json(Content(<<"a">>))>> } }

\* an SSE body is about to be read; upResp.text is what has not been read yet
InitBytes ==
    /\ InitStreams
    /\ config = [proxyKey |-> <<>>, customLlmUrl |-> <<Origin>>]
    /\ request = NoRequest
    /\ pc = "idle"
    /\ chatReq = NoChatReq
    /\ upResp \in { UpAnswer(200, "text/event-stream", "sse", t, EmptyObj) :
                       t \in BodyTexts }
    /\ http = NoHttp

\* pull(controller) when reader.read() returns the next bytes of the body, cut
\* at any place
PullBytes ==
    /\ stream
    /\ ~closed
    /\ ~upDone
    /\ \E n \in 1..Len(upResp.text) :
          LET chunk == SubSeq(upResp.text, 1, n)
          IN  /\ SetProjState(ProcessLines([ProjState EXCEPT !.buffer = @ \o chunk]))
              /\ upLines' = upLines + CountNL(chunk)
              /\ upPartial' = AfterLastNL(upPartial \o chunk)
              /\ upResp' = [upResp EXCEPT !.text = SubSeq(@, n + 1, Len(@))]
    /\ UNCHANGED <<upDone, upEvents, stream, response, upJson, reply>>
    /\ UNCHANGED asmVars
    /\ UNCHANGED <<config, request, pc, chatReq, http, cancelled, upstreamReader>>

\* pull(controller) when the body is at its end
PullBytesDone ==
    /\ stream
    /\ ~closed
    /\ ~upDone
    /\ upResp.text = <<>>
    /\ SetProjState(EofBranch(ProjState))
    /\ upDone' = TRUE
    /\ UNCHANGED <<upLines, upPartial, upEvents, stream, response, upJson, reply>>
    /\ UNCHANGED asmVars
    /\ UNCHANGED <<edgeVars, cancelled, upstreamReader>>

\* one turn of while (true) of the assembler on the next bytes of the body
AsmReadBytes ==
    /\ ~stream
    /\ ~returned
    /\ ~upDone
    /\ \E n \in 1..Len(upResp.text) :
          LET chunk == SubSeq(upResp.text, 1, n)
          IN  /\ SetAsmState(AssembleLines([AsmState EXCEPT !.buffer = @ \o chunk]))
              /\ upLines' = upLines + CountNL(chunk)
              /\ upPartial' = AfterLastNL(upPartial \o chunk)
              /\ upEvents' = upEvents \o EventsOfLines(CompleteLines(upPartial \o chunk))
              /\ upResp' = [upResp EXCEPT !.text = SubSeq(@, n + 1, Len(@))]
    /\ UNCHANGED <<upDone, stream, reply>>
    /\ UNCHANGED projVars
    /\ UNCHANGED <<config, request, pc, chatReq, http, cancelled, upstreamReader>>

\* the turn of the assembler in which the body is at its end
AsmReadBytesDone ==
    /\ ~stream
    /\ ~returned
    /\ ~upDone
    /\ upResp.text = <<>>
    /\ SetAsmState(Return(AsmState, FilterBoolean(toolCalls)))
    /\ upDone' = TRUE
    /\ UNCHANGED <<upLines, upPartial, upEvents, stream, reply>>
    /\ UNCHANGED projVars
    /\ UNCHANGED <<edgeVars, cancelled, upstreamReader>>

NextBytes == PullBytes \/ PullBytesDone \/ AsmReadBytes \/ AsmReadBytesDone

SpecBytes == InitBytes /\ [][NextBytes]_vars

\* the result the assembler returns if the rest of the body comes in one chunk
AsmOutcome(s, rest) ==
    LET s1 == IF s.returned THEN s ELSE AssembleLines([s EXCEPT !.buffer = @ \o rest])
    IN  IF s1.returned THEN s1.result ELSE Return(s1, FilterBoolean(s1.toolCalls)).result

\* the events the projector has sent at its close if the rest of the body
\* comes in one chunk
ProjOutcome(s, rest) ==
    LET s1 == IF s.closed THEN s ELSE ProcessLines([s EXCEPT !.buffer = @ \o rest])
    IN  IF s1.closed THEN s1.out ELSE EofBranch(s1).out

\* C30: whatever chunk is read next, cut inside a line or after several lines,
\* the result the assembler will return and the events the projector will have
\* sent are what they were before the chunk was read with the body in one piece;
\* so every way of cutting a body gives what one chunk, and one line per chunk,
\* give
C30_SplitIndependent ==
    [][ /\ ~stream =>
               AsmOutcome(AsmState', upResp'.text) = AsmOutcome(AsmState, upResp.text)
        /\ stream =>
               ProjOutcome(ProjState', upResp'.text) = ProjOutcome(ProjState, upResp.text)
      ]_vars

\* the projector has sent the events of two lines and holds the start of a
\* third line, cut after "data:", whose end is in a chunk still to come
C30_Witness ==
    /\ stream
    /\ ~closed
    /\ upLines = 2
    /\ buffer = <<PREFIX>>
    /\ Len(out) > 2
    /\ upResp.text # <<>>

====
